---- MODULE Spec2Model ----
(***************************************************************************)
(* A model of the Emissary agent framework: the tool registry, the agent   *)
(* execution loop (ExecuteAgentUseCaseImpl.execute) and the two-tier       *)
(* memory (InMemoryMemoryStore, FileMemoryStore, MemoryManager).           *)
(*                                                                         *)
(* The specifications of the module:                                       *)
(*   Spec       one execute() call of the agent loop, built-in registry    *)
(*   LiveSpec   Spec with weak fairness (every awaited call returns)       *)
(*   SpecTools  register / unregister / execute on a ToolRegistryImpl      *)
(*   SpecMem    store / consolidate on a MemoryManager whose durable       *)
(*              writes can fail                                            *)
(*   SpecMgr    every operation of a MemoryManager, durable writes working *)
(*   SpecStores the two tier stores given the same calls                   *)
(*   SpecIds    the ids of the two tier stores across deletes and a        *)
(*              restart of the durable store                               *)
(*   SpecDurable  the durable store on a file system that can fail        *)
(*   SpecStartup  the durable store across restarts of the process         *)
(*   SpecIdent  a MemoryManager whose entries are retrieved and deleted    *)
(*              by id                                                      *)
(*   SpecRace   store() and consolidate() calls of several callers,        *)
(*              interleaved at their awaits                                *)
(*   SpecTimer  a MemoryManager with its auto-prune timer                  *)
(*   SpecFlow   one workflow execution with pause / resume / cancel        *)
(*   SpecTask   updateStatus / setResult on a Task                         *)
(***************************************************************************)
EXTENDS Integers, Sequences, FiniteSets, TLC

VARIABLES
    \* ---- ToolRegistryImpl
    tools,          \* Map<string, Tool> keyed by tool id
    toolsByName,    \* Map<string, Tool> keyed by tool name
    lastCall,       \* the last ToolRegistry.execute call and how it ended
    \* ---- one ExecuteAgentUseCaseImpl.execute call
    request,        \* the ExecuteAgentRequest and the wiring of the use case
    pc,             \* where execute() is suspended
    iterationCount,
    completed,
    finalOutput,
    iterations,     \* Iteration[]
    pending,        \* the tool call being awaited
    taskStatus,
    taskResult,
    taskMeta,       \* Task.metadata
    result,         \* what execute() returned
    startedAt,      \* the clock when execute() began
    memLog,         \* the memoryStore.store calls of this execution
    kinds,          \* per Iteration Record: the kind of pass and the tool's result
    modelCalls,     \* number of llmProvider.generateCompletion calls
    toolExecs,      \* number of toolRegistry.execute calls
    thrown,         \* the error an iteration threw
    \* ---- MemoryManager over an InMemoryMemoryStore and a FileMemoryStore
    stMemories,     \* InMemoryMemoryStore.memories, in insertion order
    stNextId,
    ltIndex,        \* FileMemoryStore.index.memories
    ltFiles,        \* the <id>.json files of the storage directory
    ltNextId,
    now,            \* the clock read by new Date()
    memOps,         \* number of Manager calls made
    lastMem,        \* the last Manager call and what it returned
    mgrConfig,      \* the MemoryManagerConfig the Manager was constructed with
    pruneTimer,     \* MemoryManager.pruneTimer
    autoPrunes,     \* number of auto-prune ticks run
    callers,        \* the store() and consolidate() calls in progress on the
                    \* Manager, and the long-term copies they have made
    \* ---- WorkflowEngineImpl: one workflow and its execution
    wf              \* the workflow's steps, the WorkflowExecutionState, the
                    \* executeWorkflow calls in progress and the log of step events

regVars  == <<tools, toolsByName, lastCall>>
loopVars == <<request, pc, iterationCount, completed, finalOutput, iterations,
              pending, taskStatus, taskResult, result, memLog, kinds,
              modelCalls, toolExecs, thrown, startedAt, taskMeta>>
memVars  == <<stMemories, stNextId, ltIndex, ltFiles, ltNextId, now, memOps, lastMem>>
timerVars == <<mgrConfig, pruneTimer, autoPrunes, callers>>
engineVars == <<wf>>
vars     == <<regVars, loopVars, memVars, timerVars, engineVars>>

\* undefined / null
None == "none"

\* MemoryImportance
Low == 1
Medium == 2
High == 3
Critical == 4

(***************************************************************************)
(* Bounds of the model                                                     *)
(***************************************************************************)
MaxIter == 2
MaxMemOps == 3
MaxTime == 2
MaxSteps == 2
MaxCalls == 2
MaxCallers == 2
\* the consolidationThreshold the Manager of the model is configured with
ConsolidationThreshold == 2

(***************************************************************************)
(* Small helpers                                                           *)
(***************************************************************************)
Range(s) == {s[i] : i \in 1..Len(s)}

RECURSIVE Join(_, _)
\* Array.prototype.join
Join(strs, sep) ==
    IF Len(strs) = 0 THEN ""
    ELSE IF Len(strs) = 1 THEN strs[1]
    ELSE strs[1] \o sep \o Join(Tail(strs), sep)

RECURSIVE SeqFilter(_, _)
\* the elements of s, in order, that are in the set keep
SeqFilter(s, keep) ==
    IF Len(s) = 0 THEN <<>>
    ELSE IF Head(s) \in keep THEN <<Head(s)>> \o SeqFilter(Tail(s), keep)
    ELSE SeqFilter(Tail(s), keep)

RECURSIVE SeqMap(_, _)
\* Array.prototype.map, the callback given as a function f
SeqMap(s, f) ==
    IF Len(s) = 0 THEN <<>> ELSE <<f[Head(s)]>> \o SeqMap(Tail(s), f)

(***************************************************************************)
(* Tools: domain/entities/tool.ts and the built-in tools                   *)
(***************************************************************************)
\* property names every object literal inherits from Object.prototype,
\* which the JavaScript `in` operator therefore answers true for
ObjectPrototypeKeys == {"constructor"}

\* key in obj, for an object literal with the given own keys
InOp(key, ownKeys) == key \in ownKeys \cup ObjectPrototypeKeys

CalculatorTool ==
    [id |-> "tool-calculator", name |-> "calculator",
     properties |-> {"expression"}, required |-> <<"expression">>]

CurrentTimeTool ==
    [id |-> "tool-current-time", name |-> "current_time",
     properties |-> {"timezone"}, required |-> <<>>]

\* a plugin tool that reuses the name calculator under its own id
PluginCalculatorTool ==
    [id |-> "plugin-calculator", name |-> "calculator",
     properties |-> {"expression", "precision"},
     required |-> <<"expression", "precision">>]

ToolSet == {CalculatorTool, CurrentTimeTool, PluginCalculatorTool}
ToolIds == {t.id : t \in ToolSet}

\* names a caller or the model may ask for
CallNames == {"calculator", "current_time", "missing", "final_answer"}

\* ToolParams, as the ordered list of the keys supplied
ParamChoices ==
    {<<>>, <<"expression">>, <<"expression", "precision">>,
     <<"expression", "bogus">>, <<"expression", "constructor">>, <<"timezone">>}

\* an optional value: <<>> when undefined, <<v>> when v
Undefined == <<>>
Some(v) == <<v>>

\* what an executor does once invoked
ExecutorOutcomes ==
    {[kind |-> "ok", output |-> Some(4), error |-> None],
     [kind |-> "fail", output |-> Undefined, error |-> "Invalid expression"],
     [kind |-> "throw", output |-> Undefined, error |-> "executor crashed"]}

Returned(v) == [k |-> "return", v |-> v]
Threw(e)    == [k |-> "throw", e |-> e]

ToolOk(output) == [success |-> TRUE, output |-> output, error |-> None]
ToolFail(msg)  == [success |-> FALSE, output |-> Undefined, error |-> msg]

\* Tool.validate: the list of error messages
ToolValidateErrors(tool, params) ==
    LET missing == SeqFilter(tool.required,
                       {r \in Range(tool.required) : ~InOp(r, Range(params))})
        unknown == SeqFilter(params,
                       {p \in Range(params) : ~InOp(p, tool.properties)})
        missingMsg == [r \in Range(tool.required) |-> "Missing required parameter: " \o r]
        unknownMsg == [p \in Range(params) |-> "Unknown parameter: " \o p]
    IN  SeqMap(missing, missingMsg) \o SeqMap(unknown, unknownMsg)

ToolValidate(tool, params) == Len(ToolValidateErrors(tool, params)) = 0

\* the executor call of Tool.execute, line 225: how the awaited promise settles
ExecutorSettles(outcome) ==
    IF outcome.kind = "throw" THEN Threw(outcome.error)
    ELSE IF outcome.kind = "ok" THEN Returned(ToolOk(outcome.output))
    ELSE Returned(ToolFail(outcome.error))

\* the body of the try block of Tool.execute
ToolExecuteTry(tool, params, outcome) ==
    IF ~ToolValidate(tool, params)
    THEN Returned(ToolFail("Invalid parameters: "
                           \o Join(ToolValidateErrors(tool, params), ", ")))
    ELSE ExecutorSettles(outcome)

\* Tool.execute without its catch clause
ToolExecuteNoCatch(tool, params, outcome) == ToolExecuteTry(tool, params, outcome)

\* Tool.execute
ToolExecute(tool, params, outcome) ==
    LET r == ToolExecuteTry(tool, params, outcome)
    IN  IF r.k = "throw" THEN Returned(ToolFail(r.e)) ELSE r

\* does Tool.execute reach the executor
ExecutorInvoked(byName, name, params) ==
    /\ name \in DOMAIN byName
    /\ ToolValidate(byName[name], params)

\* ToolRegistryImpl.execute with neither try/catch on the way to the executor
ToolRegistryExecuteNoCatch(byName, name, params, outcome) ==
    IF name \notin DOMAIN byName
    THEN Returned(ToolFail("Tool not found: " \o name))
    ELSE ToolExecuteNoCatch(byName[name], params, outcome)

\* ToolRegistryImpl.execute
ToolRegistryExecute(byName, name, params, outcome) ==
    IF name \notin DOMAIN byName
    THEN Returned(ToolFail("Tool not found: " \o name))
    ELSE LET r == ToolExecute(byName[name], params, outcome)
         IN  IF r.k = "throw" THEN Returned(ToolFail(r.e)) ELSE r

\* the registry as Emissary builds it: the built-in tools only
BuiltinTools == {CalculatorTool, CurrentTimeTool}
BuiltinById ==
    [i \in {t.id : t \in BuiltinTools} |-> CHOOSE t \in BuiltinTools : t.id = i]
BuiltinByName ==
    [n \in {t.name : t \in BuiltinTools} |-> CHOOSE t \in BuiltinTools : t.name = n]

(***************************************************************************)
(* ToolRegistryImpl: register / unregister / execute                       *)
(***************************************************************************)
EmptyMap == [x \in {} |-> None]

\* Map.prototype.set
MapSet(m, key, value) ==
    [x \in DOMAIN m \cup {key} |-> IF x = key THEN value ELSE m[x]]

\* Map.prototype.delete
MapDelete(m, key) == [x \in DOMAIN m \ {key} |-> m[x]]

NoCall ==
    [name |-> None, params |-> <<>>, outcome |-> [kind |-> None], byName |-> EmptyMap,
     invoked |-> FALSE, completion |-> Threw(None)]

\* ToolRegistryImpl.register
Register(tool) ==
    /\ tools' = MapSet(tools, tool.id, tool)
    /\ toolsByName' = MapSet(toolsByName, tool.name, tool)
    /\ UNCHANGED lastCall
    /\ UNCHANGED <<loopVars, memVars, timerVars, engineVars>>

\* ToolRegistryImpl.unregister
Unregister(id) ==
    /\ IF id \notin DOMAIN tools
       THEN UNCHANGED <<tools, toolsByName>>
       ELSE /\ toolsByName' = MapDelete(toolsByName, tools[id].name)
            /\ tools' = MapDelete(tools, id)
    /\ UNCHANGED lastCall
    /\ UNCHANGED <<loopVars, memVars, timerVars, engineVars>>

\* a caller awaits ToolRegistryImpl.execute(name, params)
Execute(name, params, outcome) ==
    /\ lastCall' = [name |-> name, params |-> params, outcome |-> outcome,
                    byName |-> toolsByName,
                    invoked |-> ExecutorInvoked(toolsByName, name, params),
                    completion |-> ToolRegistryExecute(toolsByName, name, params, outcome)]
    /\ UNCHANGED <<tools, toolsByName>>
    /\ UNCHANGED <<loopVars, memVars, timerVars, engineVars>>

RegistryInit ==
    /\ tools = EmptyMap
    /\ toolsByName = EmptyMap
    /\ lastCall = NoCall

RegistryNext ==
    \/ \E tool \in ToolSet : Register(tool)
    \/ \E id \in ToolIds : Unregister(id)
    \/ \E name \in CallNames, params \in ParamChoices, outcome \in ExecutorOutcomes :
          Execute(name, params, outcome)

(***************************************************************************)
(* Task: domain/entities/task.ts                                           *)
(***************************************************************************)
\* Task.updateStatus: the status after the call
TaskUpdateStatus(current, status) == status

\* TaskStatus
TaskStatuses == {"pending", "running", "completed", "failed", "cancelled"}

\* Task constructor: the metadata of a task created at time t
NewTaskMeta(t) ==
    [createdAt |-> t, updatedAt |-> t, startedAt |-> Undefined,
     completedAt |-> Undefined, duration |-> Undefined]

\* Task.updateStatus: the metadata after the call made at time t
TaskUpdateMeta(meta, status, t) ==
    LET started == IF status = "running" /\ meta.startedAt = Undefined
                   THEN Some(t) ELSE meta.startedAt
        closes == status \in {"completed", "failed", "cancelled"}
                      /\ meta.completedAt = Undefined
    IN  [createdAt |-> meta.createdAt,
         updatedAt |-> t,
         startedAt |-> started,
         completedAt |-> IF closes THEN Some(t) ELSE meta.completedAt,
         duration |-> IF closes /\ started # Undefined
                      THEN Some(t - started[1]) ELSE meta.duration]

\* Task.setResult: the status after the call
TaskSetResult(current, res) ==
    TaskUpdateStatus(current, IF res.success THEN "completed" ELSE "failed")

(***************************************************************************)
(* ExecuteAgentUseCaseImpl.execute                                         *)
(***************************************************************************)
ExecutionIdString == "exec-1"

\* options.tools of the request: not given, or a list of names
ToolOptions ==
    {[given |-> FALSE, names |-> <<>>],
     [given |-> TRUE, names |-> <<>>],
     [given |-> TRUE, names |-> <<"calculator", "missing">>]}

\* options.timeout of the request, in milliseconds
Timeouts == {1}

\* the milliseconds a llmProvider.generateCompletion call takes to settle
ModelLatencies == {2}

\* the requests of the model; options.maxIterations and options.timeout are
\* always given
Requests ==
    [agentFound : BOOLEAN, maxIterations : 0..MaxIter,
     tools : ToolOptions, hasMemory : BOOLEAN, timeout : Timeouts]

\* the arguments the model puts in a tool call
CallArguments == {<<>>, <<"expression">>, <<"expression", "bogus">>}

ToolCalls == [name : CallNames, arguments : CallArguments]

\* a further tool call of the same model turn
ExtraToolCall == [name |-> "current_time", arguments |-> <<>>]

\* how llmProvider.generateCompletion settles
LLMResponses ==
    {[kind |-> "ok", content |-> c, toolCalls |-> <<>>, error |-> None] :
        c \in {"The answer is 4", "I cannot tell"}}
    \cup {[kind |-> "ok", content |-> "I will use a tool", toolCalls |-> <<tc>>,
           error |-> None] : tc \in ToolCalls}
    \cup {[kind |-> "ok", content |-> "I will use a tool",
           toolCalls |-> <<tc, ExtraToolCall>>, error |-> None] : tc \in ToolCalls}
    \cup {[kind |-> "throw", content |-> None, toolCalls |-> <<>>, error |-> e] :
        e \in {"rate limited", "network error"}}

\* lines 65-71: the names of the tools the model is told about
ToolDefinitions(req, byId, byName) ==
    IF req.tools.given
    THEN Range(SeqFilter(req.tools.names, DOMAIN byName))
    ELSE {byId[i].name : i \in DOMAIN byId}

\* JSON.stringify of a tool output (a number)
JSONStringify(output) == ToString(output[1])

\* lines 114-116 with the failure reported as the bare message
ObservationBareMessage(toolResult) ==
    IF toolResult.success
    THEN JSONStringify(toolResult.output)
    ELSE toolResult.error

\* lines 114-116
Observation(toolResult) ==
    IF toolResult.success
    THEN JSONStringify(toolResult.output)
    ELSE "Error: " \o toolResult.error

\* the loop condition of line 79, off by one
LoopGuardOffByOne(count, max, done) == count <= max /\ ~done

\* the loop condition of line 79 without its completion test
LoopGuardIgnoresCompleted(count, max, done) == count < max

\* the loop condition of line 79
LoopGuard(count, max, done) == count < max /\ ~done

Ok(v)  == [kind |-> "ok", value |-> v]
Err(e) == [kind |-> "err", error |-> e]
NoResult == [kind |-> "pending"]

NoPending ==
    [name |-> None, arguments |-> <<>>, thought |-> None, result |-> ToolFail(None),
     toolCalls |-> <<>>]

\* the last of the tool calls of a response
LastToolCall(toolCalls) == toolCalls[Len(toolCalls)]

\* line 101: the tool call of a response that is executed
ChosenToolCall(toolCalls) == toolCalls[1]

\* lines 130-142 with the importance not derived from the tool's success
EpisodicWriteAlwaysMedium(call, toolResult) ==
    [type |-> "episodic",
     content |-> [type |-> "tool_execution", tool |-> call.name,
                  input |-> call.arguments, output |-> toolResult.output,
                  success |-> toolResult.success],
     importance |-> Medium,
     tags |-> <<"tool", call.name, ExecutionIdString>>]

\* lines 130-142: the arguments of the memoryStore.store call
EpisodicWrite(call, toolResult) ==
    [type |-> "episodic",
     content |-> [type |-> "tool_execution", tool |-> call.name,
                  input |-> call.arguments, output |-> toolResult.output,
                  success |-> toolResult.success],
     importance |-> IF toolResult.success THEN Medium ELSE Low,
     tags |-> <<"tool", call.name, ExecutionIdString>>]

\* a catch clause that swallows the error and lets the loop go on
CatchAndContinue(e) ==
    /\ thrown' = e
    /\ UNCHANGED result
    /\ pc' = "loop"

\* the catch clauses of lines 165-168 and 204-208: the error is returned
Catch(e) ==
    /\ thrown' = e
    /\ result' = Err(e)
    /\ pc' = "returned"

\* lines 34-77: find the agent, create the task, mark it running
Start ==
    /\ pc = "start"
    /\ startedAt' = now
    /\ IF ~request.agentFound
       THEN /\ result' = Err("Agent not found")
            /\ pc' = "returned"
            /\ UNCHANGED <<taskStatus, taskMeta>>
       ELSE /\ taskStatus' = TaskUpdateStatus("pending", "running")
            /\ taskMeta' = TaskUpdateMeta(NewTaskMeta(now), "running", now)
            /\ pc' = "loop"
            /\ UNCHANGED result
    /\ UNCHANGED <<request, iterationCount, completed, finalOutput, iterations,
                   pending, taskResult, memLog, kinds, modelCalls, toolExecs, thrown>>
    /\ UNCHANGED <<regVars, memVars, timerVars, engineVars>>

\* the next pass begun without waiting for memoryStore.store to settle
BeginIterationEarly ==
    /\ pc \in {"loop", "mem"}
    /\ LoopGuard(iterationCount, request.maxIterations, completed)
    /\ iterationCount' = iterationCount + 1
    /\ modelCalls' = modelCalls + 1
    /\ pc' = "llm"
    /\ UNCHANGED <<request, completed, finalOutput, iterations, pending, taskStatus,
                   taskResult, result, memLog, kinds, toolExecs, thrown>>
    /\ UNCHANGED <<regVars, memVars, timerVars, engineVars, startedAt, taskMeta>>

\* lines 79-94: the loop condition holds; the model is called
BeginIteration ==
    /\ pc = "loop"
    /\ LoopGuard(iterationCount, request.maxIterations, completed)
    /\ iterationCount' = iterationCount + 1
    /\ modelCalls' = modelCalls + 1
    /\ pc' = "llm"
    /\ UNCHANGED <<request, completed, finalOutput, iterations, pending, taskStatus,
                   taskResult, result, memLog, kinds, toolExecs, thrown>>
    /\ UNCHANGED <<regVars, memVars, timerVars, engineVars, startedAt, taskMeta>>

\* lines 96-112 and 149-168: the model call has settled, latency milliseconds
\* after it was made
LLMRespond(resp, latency) ==
    /\ pc = "llm"
    /\ IF resp.kind = "throw"
       THEN /\ Catch(resp.error)
            /\ UNCHANGED <<completed, finalOutput, iterations, pending, kinds, toolExecs>>
       ELSE IF Len(resp.toolCalls) > 0
       THEN /\ pending' = [name |-> ChosenToolCall(resp.toolCalls).name,
                           arguments |-> ChosenToolCall(resp.toolCalls).arguments,
                           thought |-> resp.content,
                           result |-> ToolFail(None),
                           toolCalls |-> resp.toolCalls]
            /\ toolExecs' = toolExecs + 1
            /\ pc' = "tool"
            /\ UNCHANGED <<completed, finalOutput, iterations, kinds, thrown, result>>
       ELSE /\ iterations' = Append(iterations,
                                [number |-> iterationCount, thought |-> resp.content,
                                 action |-> "final_answer", actionInput |-> <<>>,
                                 observation |-> resp.content])
            /\ kinds' = Append(kinds, [kind |-> "final", result |-> ToolOk(Undefined)])
            /\ finalOutput' = Some(resp.content)
            /\ completed' = TRUE
            /\ pc' = "loop"
            /\ UNCHANGED <<pending, toolExecs, thrown, result>>
    /\ UNCHANGED <<request, iterationCount, taskStatus, taskResult, memLog, modelCalls>>
    /\ now' = now + latency
    /\ UNCHANGED <<stMemories, stNextId, ltIndex, ltFiles, ltNextId, memOps, lastMem>>
    /\ UNCHANGED <<regVars, timerVars, engineVars, startedAt, taskMeta>>

\* lines 109-143: toolRegistry.execute has settled; the iteration is recorded
\* and, with a memory store, memoryStore.store is called
ToolReturn(outcome) ==
    /\ pc = "tool"
    /\ LET c == ToolRegistryExecute(toolsByName, pending.name, pending.arguments, outcome)
       IN  IF c.k = "throw"
           THEN /\ Catch(c.e)
                /\ UNCHANGED <<iterations, kinds, pending, memLog>>
           ELSE /\ iterations' = Append(iterations,
                                    [number |-> iterationCount, thought |-> pending.thought,
                                     action |-> pending.name,
                                     actionInput |-> pending.arguments,
                                     observation |-> Observation(c.v)])
                /\ kinds' = Append(kinds, [kind |-> "tool", result |-> c.v])
                /\ pending' = [pending EXCEPT !.result = c.v]
                /\ IF request.hasMemory
                   THEN /\ memLog' = Append(memLog, EpisodicWrite(pending, c.v))
                        /\ pc' = "mem"
                   ELSE /\ pc' = "loop"
                        /\ UNCHANGED memLog
                /\ UNCHANGED <<thrown, result>>
    /\ UNCHANGED <<request, iterationCount, completed, finalOutput, taskStatus,
                   taskResult, modelCalls, toolExecs>>
    /\ UNCHANGED <<regVars, memVars, timerVars, engineVars, startedAt, taskMeta>>

\* lines 143-148: memoryStore.store has returned
MemStored ==
    /\ pc = "mem"
    /\ pc' = "loop"
    /\ UNCHANGED <<request, iterationCount, completed, finalOutput, iterations, pending,
                   taskStatus, taskResult, result, memLog, kinds, modelCalls,
                   toolExecs, thrown>>
    /\ UNCHANGED <<regVars, memVars, timerVars, engineVars, startedAt, taskMeta>>

\* lines 171-203: the loop has ended; the task is closed and the response returned
Finish ==
    /\ pc = "loop"
    /\ ~LoopGuard(iterationCount, request.maxIterations, completed)
    /\ LET res == IF ~completed
                  THEN [success |-> FALSE, output |-> Undefined,
                        error |-> "Maximum iterations reached without completion"]
                  ELSE [success |-> TRUE, output |-> finalOutput, error |-> None]
       IN  /\ taskStatus' = TaskSetResult(
                   TaskUpdateStatus(taskStatus, IF completed THEN "completed" ELSE "failed"),
                   res)
           /\ taskMeta' = TaskUpdateMeta(
                   TaskUpdateMeta(taskMeta, IF completed THEN "completed" ELSE "failed",
                                  now),
                   IF res.success THEN "completed" ELSE "failed", now)
           /\ taskResult' = res
    /\ result' = Ok([success |-> completed,
                     output |-> finalOutput,
                     error |-> IF completed THEN None ELSE "Maximum iterations reached",
                     iterations |-> iterations,
                     metadataIterations |-> iterationCount])
    /\ pc' = "returned"
    /\ UNCHANGED <<request, iterationCount, completed, finalOutput, iterations, pending,
                   memLog, kinds, modelCalls, toolExecs, thrown>>
    /\ UNCHANGED <<regVars, memVars, timerVars, engineVars, startedAt>>

\* buildMessages, lines 269-284: the messages that replay one Iteration Record
ReplayOne(iteration) ==
    <<[role |-> "assistant", content |-> iteration.thought]>>
    \o (IF iteration.action # "final_answer"
        THEN <<[role |-> "user", content |-> "Tool result: " \o iteration.observation]>>
        ELSE <<>>)

RECURSIVE Replay(_)
\* buildMessages, lines 269-284: the messages that replay the Iteration Records
Replay(iters) ==
    IF iters = <<>> THEN <<>> ELSE ReplayOne(Head(iters)) \o Replay(Tail(iters))

\* the results the callers of the model hand to Task.setResult
TaskResultChoices ==
    {[success |-> TRUE, output |-> Some("done"), error |-> None],
     [success |-> FALSE, output |-> Undefined, error |-> "boom"]}

\* task.updateStatus(status), called on the task of the model
TaskUpdate(status) ==
    /\ taskStatus' = TaskUpdateStatus(taskStatus, status)
    /\ taskMeta' = TaskUpdateMeta(taskMeta, status, now)
    /\ UNCHANGED <<request, pc, iterationCount, completed, finalOutput, iterations,
                   pending, taskResult, result, memLog, kinds, modelCalls, toolExecs,
                   thrown, startedAt>>
    /\ UNCHANGED <<regVars, memVars, timerVars, engineVars>>

\* task.setResult(res), called on the task of the model
TaskSet(res) ==
    /\ taskResult' = res
    /\ taskStatus' = TaskSetResult(taskStatus, res)
    /\ taskMeta' = TaskUpdateMeta(taskMeta, IF res.success THEN "completed" ELSE "failed",
                                  now)
    /\ UNCHANGED <<request, pc, iterationCount, completed, finalOutput, iterations,
                   pending, result, memLog, kinds, modelCalls, toolExecs, thrown,
                   startedAt>>
    /\ UNCHANGED <<regVars, memVars, timerVars, engineVars>>

LoopInit ==
    /\ request \in Requests
    /\ pc = "start"
    /\ iterationCount = 0
    /\ completed = FALSE
    /\ finalOutput = Undefined
    /\ iterations = <<>>
    /\ pending = NoPending
    /\ taskStatus = "pending"
    /\ taskResult = [success |-> FALSE, output |-> Undefined, error |-> None]
    /\ result = NoResult
    /\ memLog = <<>>
    /\ kinds = <<>>
    /\ modelCalls = 0
    /\ toolExecs = 0
    /\ thrown = None
    /\ startedAt = 0
    /\ taskMeta = NewTaskMeta(0)

LoopNext ==
    \/ Start
    \/ BeginIteration
    \/ \E resp \in LLMResponses : \E latency \in ModelLatencies :
         LLMRespond(resp, latency)
    \/ \E outcome \in ExecutorOutcomes : ToolReturn(outcome)
    \/ MemStored
    \/ Finish

(***************************************************************************)
(* JSON values, JSON text and dates                                        *)
(***************************************************************************)
\* a JsonValue: a string (its characters) or a number
Str(chars) == [t |-> "str", s |-> chars, n |-> 0]
Num(n) == [t |-> "num", s |-> <<>>, n |-> n]

Digits == 0..9

\* JSON.stringify of a JsonValue, as the sequence of the text's characters
ContentText(content) ==
    IF content.t = "str" THEN <<"\"">> \o content.s \o <<"\"">>
    ELSE <<ToString(content.n)>>

\* a parse that keeps the quotes of a string's text
JSONParseKeepsQuotes(text) ==
    IF text[1] = "\"" THEN Str(text)
    ELSE Num(CHOOSE n \in Digits : ToString(n) = text[1])

\* JSON.parse of the text of a JsonValue
JSONParse(text) ==
    IF text[1] = "\"" THEN Str(SubSeq(text, 2, Len(text) - 1))
    ELSE Num(CHOOSE n \in Digits : ToString(n) = text[1])

UpperToLower == ("A" :> "a") @@ ("B" :> "b") @@ ("C" :> "c") @@ ("D" :> "d")

\* String.prototype.toLowerCase
ToLowerCase(chars) ==
    [i \in 1..Len(chars) |->
        IF chars[i] \in DOMAIN UpperToLower THEN UpperToLower[chars[i]] ELSE chars[i]]

\* String.prototype.includes
Includes(text, pattern) ==
    \E i \in 0..(Len(text) - Len(pattern)) :
        SubSeq(text, i + 1, i + Len(pattern)) = pattern

\* Date.prototype.toISOString
ToISOString(t) == "T" \o ToString(t)

\* new Date(isoString).getTime()
ParseDate(iso) == CHOOSE t \in 0..MaxTime : ToISOString(t) = iso

\* an optional number is truthy when it is given and not 0
Truthy(opt) == opt # Undefined /\ opt[1] # 0

(***************************************************************************)
(* InMemoryMemoryStore                                                     *)
(***************************************************************************)
\* `mem-${n}`
MemId(n) == "mem-" \o ToString(n)

NewEntry(id, type, content, importance, tags, t) ==
    [id |-> id, type |-> type, content |-> content, importance |-> importance,
     tags |-> tags, createdAt |-> t, accessedAt |-> t, accessCount |-> 0]

\* MemoryEntry.recordAccess
RecordAccess(e, t) == [e EXCEPT !.accessedAt = t, !.accessCount = @ + 1]

\* a MemoryQuery; 0 and None stand for an absent (falsy) field
\* and <<>> for an absent or empty searchText
NoQuery ==
    [type |-> None, tags |-> <<>>, minImportance |-> 0, maxAge |-> 0, limit |-> 0,
     searchText |-> <<>>]

\* the searchText filter, lines 113-118
SearchMatches(content, q) ==
    Len(q.searchText) > 0 =>
        Includes(ToLowerCase(ContentText(content)), ToLowerCase(q.searchText))

SearchFilter(entries, q) ==
    SeqFilter(entries, {e \in Range(entries) : SearchMatches(e.content, q)})

\* the filters of InMemoryMemoryStore.query, lines 86-110
QueryMatches(e, q, t) ==
    /\ q.type # None => e.type = q.type
    /\ Len(q.tags) > 0 => \E i \in 1..Len(q.tags) : q.tags[i] \in Range(e.tags)
    /\ q.minImportance # 0 => e.importance >= q.minImportance
    /\ q.maxAge # 0 => t - e.createdAt <= q.maxAge

RECURSIVE FilterEntries(_, _, _)
FilterEntries(entries, q, t) ==
    IF Len(entries) = 0 THEN <<>>
    ELSE IF QueryMatches(Head(entries), q, t)
         THEN <<Head(entries)>> \o FilterEntries(Tail(entries), q, t)
         ELSE FilterEntries(Tail(entries), q, t)

RECURSIVE InsertByAccess(_, _)
\* e put after every entry accessed at or after it (Array.prototype.sort is stable)
InsertByAccess(sorted, e) ==
    IF Len(sorted) = 0 THEN <<e>>
    ELSE IF Head(sorted).accessedAt >= e.accessedAt
         THEN <<Head(sorted)>> \o InsertByAccess(Tail(sorted), e)
         ELSE <<e>> \o sorted

RECURSIVE SortByAccessedDesc(_)
\* sort((a, b) => b.accessedAt - a.accessedAt)
SortByAccessedDesc(entries) ==
    IF Len(entries) = 0 THEN <<>>
    ELSE InsertByAccess(SortByAccessedDesc(SubSeq(entries, 1, Len(entries) - 1)),
                        entries[Len(entries)])

\* slice(0, limit) when a limit is given
ApplyLimit(entries, limit) ==
    IF limit > 0 /\ Len(entries) > limit THEN SubSeq(entries, 1, limit) ELSE entries

\* InMemoryMemoryStore.store: the store after the call
StStore(memories, nextId, type, content, importance, tags, t) ==
    Append(memories, NewEntry(MemId(nextId), type, content, importance, tags, t))

\* InMemoryMemoryStore.query: the entries returned, access recorded
StQuery(memories, q, t) ==
    LET hits == ApplyLimit(SortByAccessedDesc(
                               SearchFilter(FilterEntries(memories, q, t), q)), q.limit)
    IN  [i \in 1..Len(hits) |-> RecordAccess(hits[i], t)]

\* InMemoryMemoryStore.query: the store after the call
StAfterQuery(memories, q, t) ==
    LET ids == {e.id : e \in Range(StQuery(memories, q, t))}
    IN  [i \in 1..Len(memories) |->
            IF memories[i].id \in ids THEN RecordAccess(memories[i], t) ELSE memories[i]]

\* InMemoryMemoryStore.delete: the store after the call
StDelete(memories, id) ==
    SeqFilter(memories, {e \in Range(memories) : e.id # id})

\* InMemoryMemoryStore.retrieve: the entry returned and the store after the call
StRetrieve(memories, id, t) ==
    IF \E e \in Range(memories) : e.id = id
    THEN [entry |-> Some(RecordAccess(CHOOSE e \in Range(memories) : e.id = id, t)),
          memories |-> [i \in 1..Len(memories) |->
                           IF memories[i].id = id THEN RecordAccess(memories[i], t)
                           ELSE memories[i]]]
    ELSE [entry |-> Undefined, memories |-> memories]

\* lines 260-270 of prune: maxAge is an optional number, minImportance has
\* the default Low
ShouldPrune(createdAt, importance, maxAge, minImportance, t) ==
    LET floor == IF minImportance = Undefined THEN Low ELSE minImportance[1]
    IN  IF Truthy(maxAge)
        THEN t - createdAt > maxAge[1] /\ importance < floor
        ELSE importance < floor

\* a prune that counts the entries to remove and removes none
StPruneKeeps(memories, maxAge, minImportance, t) ==
    LET gone == {e \in Range(memories) :
                    ShouldPrune(e.createdAt, e.importance, maxAge, minImportance, t)}
    IN  [memories |-> memories, count |-> Cardinality(gone)]

\* InMemoryMemoryStore.prune: the store after the call and the count returned
StPrune(memories, maxAge, minImportance, t) ==
    LET gone == {e \in Range(memories) :
                    ShouldPrune(e.createdAt, e.importance, maxAge, minImportance, t)}
    IN  [memories |-> SeqFilter(memories, Range(memories) \ gone),
         count |-> Len(memories) - Len(SeqFilter(memories, Range(memories) \ gone))]

\* InMemoryMemoryStore.clear: type is None when no type is given
StClear(memories, type) ==
    IF type # None
    THEN [memories |-> SeqFilter(memories, {e \in Range(memories) : e.type # type}),
          count |-> Len(SeqFilter(memories, {e \in Range(memories) : e.type = type}))]
    ELSE [memories |-> <<>>, count |-> Len(memories)]

(***************************************************************************)
(* FileMemoryStore                                                         *)
(***************************************************************************)
\* JSON.stringify(entry.toJSON()): the text of the file <id>.json
EntryText(e) ==
    [id |-> e.id, type |-> e.type, content |-> ContentText(e.content),
     importance |-> e.importance, tags |-> e.tags,
     createdAt |-> ToISOString(e.createdAt), accessedAt |-> ToISOString(e.accessedAt),
     accessCount |-> e.accessCount]

\* MemoryEntry.fromJSON(JSON.parse(data)) with the dates parsed, lines 175-186
EntryFromText(doc) ==
    [id |-> doc.id, type |-> doc.type, content |-> JSONParse(doc.content),
     importance |-> doc.importance, tags |-> doc.tags,
     createdAt |-> ParseDate(doc.createdAt), accessedAt |-> ParseDate(doc.accessedAt),
     accessCount |-> doc.accessCount]

\* the record store() pushes on index.memories, lines 143-151
IndexRecord(e) ==
    [id |-> e.id, type |-> e.type, importance |-> e.importance, tags |-> e.tags,
     createdAt |-> ToISOString(e.createdAt), accessedAt |-> ToISOString(e.accessedAt),
     accessCount |-> e.accessCount]

\* the index records with their dates read by new Date(...).getTime()
IndexView(index) ==
    [i \in 1..Len(index) |->
        [index[i] EXCEPT !.createdAt = ParseDate(@), !.accessedAt = ParseDate(@)]]

\* what can go wrong in FileMemoryStore.store: the entry file write of line 140
\* or the index write of line 153
LtFailModes == {"none", "file", "index"}

\* FileMemoryStore.store on lt = [files, index, nextId]: the store after the
\* call and whether the call returned ok
LtStore(lt, type, content, importance, tags, t, fail) ==
    LET entry == NewEntry(MemId(lt.nextId), type, content, importance, tags, t)
    IN  IF fail = "file"
        THEN [ok |-> FALSE, lt |-> [lt EXCEPT !.nextId = @ + 1]]
        ELSE [ok |-> fail = "none",
              lt |-> [files |-> MapSet(lt.files, entry.id, EntryText(entry)),
                      index |-> Append(lt.index, IndexRecord(entry)),
                      nextId |-> lt.nextId + 1]]

\* FileMemoryStore.retrieve: the entry returned and the store after the call
LtRetrieve(lt, id, t) ==
    IF id \in DOMAIN lt.files
    THEN LET entry == RecordAccess(EntryFromText(lt.files[id]), t)
         IN  [entry |-> Some(entry),
              lt |-> [files |-> MapSet(lt.files, id, EntryText(entry)),
                      index |-> [i \in 1..Len(lt.index) |->
                                    IF lt.index[i].id = id
                                    THEN [lt.index[i] EXCEPT
                                            !.accessedAt = ToISOString(entry.accessedAt),
                                            !.accessCount = entry.accessCount]
                                    ELSE lt.index[i]],
                      nextId |-> lt.nextId]]
    ELSE [entry |-> Undefined, lt |-> lt]

\* the index records FileMemoryStore.query selects, lines 222-261
LtQueryIndex(lt, q, t) ==
    ApplyLimit(SortByAccessedDesc(FilterEntries(IndexView(lt.index), q, t)), q.limit)

RECURSIVE LtLoad(_, _, _, _)
\* the loop of lines 266-283 on s = [lt, entries]: every selected record is
\* retrieved, then dropped when its content does not match searchText
LtLoad(s, selected, q, t) ==
    IF Len(selected) = 0 THEN s
    ELSE LET r == LtRetrieve(s.lt, Head(selected).id, t)
         IN  LtLoad([lt |-> r.lt,
                     entries |-> IF r.entry # Undefined
                                    /\ SearchMatches(r.entry[1].content, q)
                                 THEN Append(s.entries, r.entry[1])
                                 ELSE s.entries],
                    Tail(selected), q, t)

\* FileMemoryStore.query: [lt, entries], the store after the call and the
\* entries returned
LtQuery(lt, q, t) ==
    LtLoad([lt |-> lt, entries |-> <<>>], LtQueryIndex(lt, q, t), q, t)

\* FileMemoryStore.delete
LtDelete(lt, id) ==
    IF id \in DOMAIN lt.files
    THEN [deleted |-> TRUE,
          lt |-> [files |-> MapDelete(lt.files, id),
                  index |-> SeqFilter(lt.index, {m \in Range(lt.index) : m.id # id}),
                  nextId |-> lt.nextId]]
    ELSE [deleted |-> FALSE, lt |-> lt]

\* parseInt(id.split('-')[1], 10): the number in an id
IdNumber(id) == CHOOSE n \in 1..(MaxMemOps + 1) : MemId(n) = id

RECURSIVE HighestId(_, _)
\* lines 75-81: nextId after the loop over the entries of the index
HighestId(index, nextId) ==
    IF index = <<>> THEN nextId
    ELSE HighestId(Tail(index),
                   IF IdNumber(Head(index).id) >= nextId
                   THEN IdNumber(Head(index).id) + 1 ELSE nextId)

\* FileMemoryStore.initialize, lines 61-93, of a new FileMemoryStore on the
\* storage directory of lt
LtInitialize(lt) == [lt EXCEPT !.nextId = HighestId(lt.index, 1)]

\* fs.unlink of the files of ids
MapDeleteAll(map, ids) == [x \in DOMAIN map \ ids |-> map[x]]

\* FileMemoryStore.prune when fs.unlink throws for the files of stuck: the
\* count is of the files unlinked
LtPruneUnlink(lt, maxAge, minImportance, t, stuck) ==
    LET toDelete == {m.id : m \in {m \in Range(lt.index) :
                        ShouldPrune(ParseDate(m.createdAt), m.importance,
                                    maxAge, minImportance, t)}}
        unlinked == (toDelete \cap DOMAIN lt.files) \ stuck
    IN  [lt |-> [files |-> MapDeleteAll(lt.files, unlinked),
                 index |-> SeqFilter(lt.index,
                                     {m \in Range(lt.index) : m.id \notin toDelete}),
                 nextId |-> lt.nextId],
         count |-> Cardinality(unlinked)]

\* FileMemoryStore.prune with every fs.unlink of an existing file succeeding
LtPrune(lt, maxAge, minImportance, t) ==
    LtPruneUnlink(lt, maxAge, minImportance, t, {})

\* FileMemoryStore.clear when fs.unlink throws for the files of stuck; type is
\* None when no type is given
LtClearUnlink(lt, type, stuck) ==
    LET toDelete == {m.id : m \in {m \in Range(lt.index) : type # None => m.type = type}}
        unlinked == (toDelete \cap DOMAIN lt.files) \ stuck
    IN  [lt |-> [files |-> MapDeleteAll(lt.files, unlinked),
                 index |-> SeqFilter(lt.index,
                                     {m \in Range(lt.index) : m.id \notin toDelete}),
                 nextId |-> lt.nextId],
         count |-> IF type # None THEN Cardinality(unlinked) ELSE Len(lt.index)]

\* FileMemoryStore.clear with every fs.unlink of an existing file succeeding
LtClear(lt, type) == LtClearUnlink(lt, type, {})

\* FileMemoryStore.delete when fs.unlink or the index write may throw: the
\* inner catch of lines 312-315 returns ok(false)
LtDeleteFailing(lt, id, fail) ==
    IF id \notin DOMAIN lt.files \/ fail = "file"
    THEN [deleted |-> FALSE, lt |-> lt]
    ELSE [deleted |-> fail = "none", lt |-> LtDelete(lt, id).lt]

\* the index file a new FileMemoryStore finds in its storage directory
IndexFiles == {"intact", "missing", "corrupt"}

\* FileMemoryStore.initialize, lines 61-93, of a new FileMemoryStore on the
\* storage directory of lt: when readFile or JSON.parse throws, the catch of
\* lines 82-85 leaves index = { memories: [] } and nextId = 1
LtInitializeFrom(lt, indexFile) ==
    IF indexFile = "intact" THEN LtInitialize([lt EXCEPT !.nextId = 1])
    ELSE [files |-> lt.files, index |-> <<>>, nextId |-> 1]

(***************************************************************************)
(* MemoryManager                                                           *)
(***************************************************************************)
\* consolidationImportance, by default
ConsolidationImportance == High

\* a routing that also sends episodic entries to the long-term store
RoutesEpisodicToLongTerm(type) == type \in {"long-term", "semantic", "episodic"}

\* lines 105-108: is the entry routed to the long-term store
RoutesToLongTerm(type) == type \in {"long-term", "semantic"}

\* the MemoryQuery of MemoryManager.consolidate, lines 330-333
ConsolidateQuery ==
    [NoQuery EXCEPT !.type = "short-term", !.minImportance = ConsolidationImportance]

\* a loop body that deletes and counts the entry whatever the write returned
ConsolidateOneUnchecked(s, memory, fail, t) ==
    LET r == LtStore(s.lt, "long-term", memory.content, memory.importance,
                     memory.tags, t, fail)
    IN  [st |-> StDelete(s.st, memory.id), lt |-> r.lt,
         count |-> s.count + 1,
         failed |-> IF r.ok THEN s.failed ELSE s.failed \cup {memory.id}]

\* one pass of the loop of lines 344-358 on s = [st, lt, count, failed]
ConsolidateOne(s, memory, fail, t) ==
    LET r == LtStore(s.lt, "long-term", memory.content, memory.importance,
                     memory.tags, t, fail)
    IN  IF r.ok
        THEN [st |-> StDelete(s.st, memory.id), lt |-> r.lt,
              count |-> s.count + 1, failed |-> s.failed]
        ELSE [st |-> s.st, lt |-> r.lt,
              count |-> s.count, failed |-> s.failed \cup {memory.id}]

RECURSIVE ConsolidateLoop(_, _, _, _)
ConsolidateLoop(s, memories, fails, t) ==
    IF Len(memories) = 0 THEN s
    ELSE ConsolidateLoop(ConsolidateOne(s, Head(memories), Head(fails), t),
                         Tail(memories), Tail(fails), t)

\* MemoryManager.consolidate on the stores st and lt; fails[i] is what goes
\* wrong in the i-th long-term write
MgrConsolidate(st, lt, fails, t) ==
    ConsolidateLoop([st |-> StAfterQuery(st, ConsolidateQuery, t), lt |-> lt,
                     count |-> 0, failed |-> {}],
                    StQuery(st, ConsolidateQuery, t), fails, t)

\* the entries a consolidate() call on st would try to move
ConsolidateBatch(st, t) == StQuery(st, ConsolidateQuery, t)

\* maybeConsolidate that waits for the threshold to be passed
MaybeConsolidateLate(st, lt, fails, t) ==
    IF Len(st) > ConsolidationThreshold
    THEN MgrConsolidate(st, lt, fails, t)
    ELSE [st |-> st, lt |-> lt, count |-> 0, failed |-> {}]

\* MemoryManager.maybeConsolidate, lines 372-385
MaybeConsolidate(st, lt, fails, t) ==
    IF Len(st) >= ConsolidationThreshold
    THEN MgrConsolidate(st, lt, fails, t)
    ELSE [st |-> st, lt |-> lt, count |-> 0, failed |-> {}]

\* MemoryManager.store, lines 97-122
MgrStore(st, stNext, lt, type, content, importance, tags, fail, fails, t) ==
    IF RoutesToLongTerm(type)
    THEN LET r == LtStore(lt, type, content, importance, tags, t, fail)
         IN  IF r.ok
             THEN [ok |-> TRUE, stNext |-> stNext, after |-> MaybeConsolidate(st, r.lt, fails, t)]
             ELSE [ok |-> FALSE, stNext |-> stNext,
                   after |-> [st |-> st, lt |-> r.lt, count |-> 0, failed |-> {}]]
    ELSE [ok |-> TRUE, stNext |-> stNext + 1,
          after |-> MaybeConsolidate(
                        StStore(st, stNext, type, content, importance, tags, t),
                        lt, fails, t)]

\* MemoryManager.query, lines 145-199; the long-term store is queried delay
\* milliseconds after the short-term store
MgrQuery(st, lt, q, delay, t) ==
    LET shouldQueryShortTerm == q.type = None \/ q.type \in {"short-term", "episodic"}
        shouldQueryLongTerm == q.type = None \/ q.type \in {"long-term", "semantic"}
        shortTermResult == IF shouldQueryShortTerm THEN StQuery(st, q, t) ELSE <<>>
        longTermResult == IF shouldQueryLongTerm THEN LtQuery(lt, q, t + delay)
                          ELSE [lt |-> lt, entries |-> <<>>]
    IN  [st |-> IF shouldQueryShortTerm THEN StAfterQuery(st, q, t) ELSE st,
         lt |-> longTermResult.lt,
         results |-> ApplyLimit(SortByAccessedDesc(
                                    shortTermResult \o longTermResult.entries), q.limit)]

\* MemoryManager.prune, lines 390-414
MgrPrune(st, lt, maxAge, minImportance, t) ==
    LET shortTermResult == StPrune(st, maxAge, minImportance, t)
        longTermResult == LtPrune(lt, maxAge, minImportance, t)
    IN  [st |-> shortTermResult.memories, lt |-> longTermResult.lt,
         shortTerm |-> shortTermResult.count, longTerm |-> longTermResult.count,
         total |-> shortTermResult.count + longTermResult.count]

\* MemoryManager.retrieve, lines 127-140: the short-term store first, the
\* long-term store when it has no entry of that id
MgrRetrieve(st, lt, id, t) ==
    LET shortTermResult == StRetrieve(st, id, t)
        longTermResult == LtRetrieve(lt, id, t)
    IN  IF shortTermResult.entry # Undefined
        THEN [st |-> shortTermResult.memories, lt |-> lt,
              entry |-> shortTermResult.entry]
        ELSE [st |-> shortTermResult.memories, lt |-> longTermResult.lt,
              entry |-> longTermResult.entry]

\* MemoryManager.delete, lines 204-214
MgrDelete(st, lt, id) ==
    LET longTermResult == LtDelete(lt, id)
    IN  [st |-> StDelete(st, id), lt |-> longTermResult.lt,
         deleted |-> (\E e \in Range(st) : e.id = id) \/ longTermResult.deleted]

\* MemoryManager.clear, lines 219-244
MgrClear(st, lt, type) ==
    LET shortTermResult == IF type = None \/ type \in {"short-term", "episodic"}
                           THEN StClear(st, type)
                           ELSE [memories |-> st, count |-> 0]
        longTermResult == IF type = None \/ type \in {"long-term", "semantic"}
                          THEN LtClear(lt, type)
                          ELSE [lt |-> lt, count |-> 0]
    IN  [st |-> shortTermResult.memories, lt |-> longTermResult.lt,
         total |-> shortTermResult.count + longTermResult.count]

\* MemoryManager.getStats: the byType count of lines 267-280
MgrStatsByType(st, lt, type) ==
    Len(SeqFilter(st, {e \in Range(st) : e.type = type}))
    + Len(SeqFilter(lt.index, {m \in Range(lt.index) : m.type = type}))

\* the default of shortTermMaxAge, line 45: 24 hours in milliseconds
DefaultShortTermMaxAge == 86400000

\* a MemoryManagerConfig with neither pruneInterval nor shortTermMaxAge
NoTimerConfig == [pruneInterval |-> Undefined, shortTermMaxAge |-> Undefined]

\* the configurations of the model
TimerConfigs ==
    {NoTimerConfig}
    \cup {[pruneInterval |-> Some(1), shortTermMaxAge |-> a] :
              a \in {Undefined, Some(0), Some(1)}}

\* line 45: config.shortTermMaxAge ?? 24 * 60 * 60 * 1000
ShortTermMaxAge(config) ==
    IF config.shortTermMaxAge = Undefined
    THEN DefaultShortTermMaxAge
    ELSE config.shortTermMaxAge[1]

\* startAutoPrune, lines 56-60: the interval timer, first due one interval on
StartAutoPrune(interval, t) == Some([interval |-> interval, due |-> t + interval])

\* lines 47-50: the timer is started if config.pruneInterval is truthy
ManagerTimer(config, t) ==
    IF Truthy(config.pruneInterval)
    THEN StartAutoPrune(config.pruneInterval[1], t)
    ELSE Undefined

\* stopAutoPrune with the timer left running
StopAutoPruneKeeps(timer) == timer

\* stopAutoPrune, lines 65-70: pruneTimer after the call
StopAutoPrune(timer) == Undefined

\* how shortTermStore.prune settles inside a tick: with ok(count), with
\* err(error), or by rejecting
PruneOutcomes == {"ok", "err", "reject"}

\* autoPrune, lines 75-91: the volatile store after the tick, the count it
\* logs and the error it lets escape
AutoPrune(st, config, outcome, t) ==
    IF outcome = "ok"
    THEN LET pruned == StPrune(st, Some(ShortTermMaxAge(config)), Some(Medium), t)
         IN  [memories |-> pruned.memories, count |-> pruned.count, thrown |-> None]
    ELSE [memories |-> st, count |-> 0, thrown |-> None]

\* the store() calls of the model: type, content, importance, tags
StoreChoices ==
    {[type |-> "short-term", content |-> Str(<<"A", "b">>), importance |-> High,
      tags |-> <<"k">>],
     [type |-> "short-term", content |-> Str(<<"b">>), importance |-> Low, tags |-> <<>>],
     [type |-> "episodic", content |-> Str(<<"c">>), importance |-> High,
      tags |-> <<"tool">>],
     [type |-> "long-term", content |-> Num(7), importance |-> Medium, tags |-> <<>>],
     [type |-> "semantic", content |-> Str(<<"c", "D">>), importance |-> Critical,
      tags |-> <<"k">>]}

LongTerm == [files |-> ltFiles, index |-> ltIndex, nextId |-> ltNextId]

\* the vectors of failure modes for a batch of n long-term writes
FailVectors(n) == [1..n -> LtFailModes]

\* the record of a call: its arguments, the two stores and the clock when it
\* was made, what it returned, and whether it repeats the call before it
NoMemCall ==
    [op |-> None, args |-> <<>>, pre |-> <<>>,
     preLt |-> [files |-> EmptyMap, index |-> <<>>, nextId |-> 1], at |-> 0,
     failed |-> {}, returned |-> 0, ok |-> TRUE, again |-> FALSE, prevAt |-> 0,
     prevReturned |-> 0, stored |-> [st |-> EmptyMap, lt |-> EmptyMap]]

MemCall(op, args, returned, failed, ok) ==
    [op |-> op, args |-> args, pre |-> stMemories, preLt |-> LongTerm, at |-> now,
     failed |-> failed, returned |-> returned, ok |-> ok,
     again |-> lastMem.op = op /\ lastMem.args = args, prevAt |-> lastMem.at,
     prevReturned |-> lastMem.returned, stored |-> lastMem.stored]

\* the MemoryQuery values of the model
QueryChoices ==
    {NoQuery,
     [NoQuery EXCEPT !.limit = 1],
     [NoQuery EXCEPT !.searchText = <<"B">>, !.limit = 1],
     [NoQuery EXCEPT !.type = "short-term", !.minImportance = High],
     [NoQuery EXCEPT !.tags = <<"k", "x">>, !.maxAge = 1]}

\* the prune(maxAge?, minImportance?) calls of the model
PruneChoices ==
    {[maxAge |-> Undefined, minImportance |-> Some(Medium)],
     [maxAge |-> Some(1), minImportance |-> Some(High)],
     [maxAge |-> Some(0), minImportance |-> Some(Medium)],
     [maxAge |-> Undefined, minImportance |-> Undefined]}

\* the ids of the retrieve and delete calls of the model
IdChoices == {MemId(1), MemId(2)}

\* the clear(type?) calls of the model
ClearChoices == {None, "short-term", "semantic"}

\* a caller awaits MemoryManager.store(...)
ManagerStore(c, fail, fails) ==
    /\ memOps < MaxMemOps
    /\ \E r \in {MgrStore(stMemories, stNextId, LongTerm, c.type, c.content,
                          c.importance, c.tags, fail, fails, now)} :
           /\ stMemories' = r.after.st
           /\ stNextId' = r.stNext
           /\ ltFiles' = r.after.lt.files
           /\ ltIndex' = r.after.lt.index
           /\ ltNextId' = r.after.lt.nextId
           /\ lastMem' = MemCall("store", c, r.after.count, r.after.failed, r.ok)
    /\ memOps' = memOps + 1
    /\ UNCHANGED now
    /\ UNCHANGED <<loopVars, regVars, timerVars, engineVars>>

\* a caller awaits MemoryManager.consolidate()
ManagerConsolidate(fails) ==
    /\ memOps < MaxMemOps
    /\ \E s \in {MgrConsolidate(stMemories, LongTerm, fails, now)} :
           /\ stMemories' = s.st
           /\ ltFiles' = s.lt.files
           /\ ltIndex' = s.lt.index
           /\ ltNextId' = s.lt.nextId
           /\ lastMem' = MemCall("consolidate", <<>>, s.count, s.failed, TRUE)
    /\ memOps' = memOps + 1
    /\ UNCHANGED <<stNextId, now>>
    /\ UNCHANGED <<loopVars, regVars, timerVars, engineVars>>

\* a caller awaits MemoryManager.query(q); the long-term store is reached
\* delay milliseconds after the short-term store
ManagerQuery(q, delay) ==
    /\ memOps < MaxMemOps
    /\ now + delay <= MaxTime
    /\ \E r \in {MgrQuery(stMemories, LongTerm, q, delay, now)} :
           /\ stMemories' = r.st
           /\ ltFiles' = r.lt.files
           /\ ltIndex' = r.lt.index
           /\ ltNextId' = r.lt.nextId
           /\ lastMem' = MemCall("query", q, r.results, {}, TRUE)
    /\ now' = now + delay
    /\ memOps' = memOps + 1
    /\ UNCHANGED stNextId
    /\ UNCHANGED <<loopVars, regVars, timerVars, engineVars>>

\* a caller awaits MemoryManager.prune(maxAge, minImportance)
ManagerPrune(p) ==
    /\ memOps < MaxMemOps
    /\ \E r \in {MgrPrune(stMemories, LongTerm, p.maxAge, p.minImportance, now)} :
           /\ stMemories' = r.st
           /\ ltFiles' = r.lt.files
           /\ ltIndex' = r.lt.index
           /\ ltNextId' = r.lt.nextId
           /\ lastMem' = MemCall("prune", p,
                                 [st |-> r.shortTerm, lt |-> r.longTerm, total |-> r.total],
                                 {}, TRUE)
    /\ memOps' = memOps + 1
    /\ UNCHANGED <<stNextId, now>>
    /\ UNCHANGED <<loopVars, regVars, timerVars, engineVars>>

\* a caller awaits MemoryManager.delete(id)
ManagerDelete(id) ==
    /\ memOps < MaxMemOps
    /\ \E r \in {MgrDelete(stMemories, LongTerm, id)} :
           /\ stMemories' = r.st
           /\ ltFiles' = r.lt.files
           /\ ltIndex' = r.lt.index
           /\ ltNextId' = r.lt.nextId
           /\ lastMem' = MemCall("delete", id, r.deleted, {}, TRUE)
    /\ memOps' = memOps + 1
    /\ UNCHANGED <<stNextId, now>>
    /\ UNCHANGED <<loopVars, regVars, timerVars, engineVars>>

\* a caller awaits MemoryManager.retrieve(id)
ManagerRetrieve(id) ==
    /\ memOps < MaxMemOps
    /\ \E r \in {MgrRetrieve(stMemories, LongTerm, id, now)} :
           /\ stMemories' = r.st
           /\ ltFiles' = r.lt.files
           /\ ltIndex' = r.lt.index
           /\ ltNextId' = r.lt.nextId
           /\ lastMem' = MemCall("retrieve", id, r.entry, {}, TRUE)
    /\ memOps' = memOps + 1
    /\ UNCHANGED <<stNextId, now>>
    /\ UNCHANGED <<loopVars, regVars, timerVars, engineVars>>

\* a caller awaits MemoryManager.clear(type)
ManagerClear(type) ==
    /\ memOps < MaxMemOps
    /\ \E r \in {MgrClear(stMemories, LongTerm, type)} :
           /\ stMemories' = r.st
           /\ ltFiles' = r.lt.files
           /\ ltIndex' = r.lt.index
           /\ ltNextId' = r.lt.nextId
           /\ lastMem' = MemCall("clear", type, r.total, {}, TRUE)
    /\ memOps' = memOps + 1
    /\ UNCHANGED <<stNextId, now>>
    /\ UNCHANGED <<loopVars, regVars, timerVars, engineVars>>

\* ---- the two tier stores called directly, each with the same call
\* store(type, content, importance, tags) on both stores
TierStore(c) ==
    /\ memOps < MaxMemOps
    /\ \E r \in {LtStore(LongTerm, c.type, c.content, c.importance, c.tags, now, "none")} :
           /\ ltFiles' = r.lt.files
           /\ ltIndex' = r.lt.index
           /\ ltNextId' = r.lt.nextId
    /\ stMemories' = StStore(stMemories, stNextId, c.type, c.content, c.importance,
                             c.tags, now)
    /\ stNextId' = stNextId + 1
    /\ lastMem' = [MemCall("store", c,
                           [st |-> MemId(stNextId), lt |-> MemId(ltNextId)], {}, TRUE)
                     EXCEPT !.stored = [st |-> MapSet(@.st, MemId(stNextId), c),
                                        lt |-> MapSet(@.lt, MemId(ltNextId), c)]]
    /\ memOps' = memOps + 1
    /\ UNCHANGED now
    /\ UNCHANGED <<loopVars, regVars, timerVars, engineVars>>

\* delete(id) on both stores
TierDelete(id) ==
    /\ memOps < MaxMemOps
    /\ \E r \in {LtDelete(LongTerm, id)} :
           /\ ltFiles' = r.lt.files
           /\ ltIndex' = r.lt.index
           /\ ltNextId' = r.lt.nextId
           /\ lastMem' = MemCall("delete", id,
                                 [st |-> id \in {e.id : e \in Range(stMemories)},
                                  lt |-> r.deleted], {}, TRUE)
    /\ stMemories' = StDelete(stMemories, id)
    /\ memOps' = memOps + 1
    /\ UNCHANGED <<stNextId, now>>
    /\ UNCHANGED <<loopVars, regVars, timerVars, engineVars>>

\* the durable store is built anew on its storage directory and initialized
\* by its first operation
TierRestart ==
    /\ \E lt \in {LtInitialize([LongTerm EXCEPT !.nextId = 1])} :
           /\ ltNextId' = lt.nextId
           /\ lastMem' = MemCall("initialize", <<>>, lt.nextId, {}, TRUE)
    /\ UNCHANGED <<stMemories, stNextId, ltIndex, ltFiles, now, memOps>>
    /\ UNCHANGED <<loopVars, regVars, timerVars, engineVars>>

\* ---- the durable store called directly, with the file system failing
\* FileMemoryStore.store(...); fail is what goes wrong in it
DurableStore(c, fail) ==
    /\ memOps < MaxMemOps
    /\ \E r \in {LtStore(LongTerm, c.type, c.content, c.importance, c.tags, now, fail)} :
           /\ ltFiles' = r.lt.files
           /\ ltIndex' = r.lt.index
           /\ ltNextId' = r.lt.nextId
           /\ lastMem' = MemCall("store", c, MemId(ltNextId), {}, r.ok)
    /\ memOps' = memOps + 1
    /\ UNCHANGED <<stMemories, stNextId, now>>
    /\ UNCHANGED <<loopVars, regVars, timerVars, engineVars>>

\* FileMemoryStore.retrieve(id)
DurableRetrieve(id) ==
    /\ memOps < MaxMemOps
    /\ \E r \in {LtRetrieve(LongTerm, id, now)} :
           /\ ltFiles' = r.lt.files
           /\ ltIndex' = r.lt.index
           /\ ltNextId' = r.lt.nextId
           /\ lastMem' = MemCall("retrieve", id, r.entry, {}, TRUE)
    /\ memOps' = memOps + 1
    /\ UNCHANGED <<stMemories, stNextId, now>>
    /\ UNCHANGED <<loopVars, regVars, timerVars, engineVars>>

\* FileMemoryStore.query(q)
DurableQuery(q) ==
    /\ memOps < MaxMemOps
    /\ \E r \in {LtQuery(LongTerm, q, now)} :
           /\ ltFiles' = r.lt.files
           /\ ltIndex' = r.lt.index
           /\ ltNextId' = r.lt.nextId
           /\ lastMem' = MemCall("query", q, r.entries, {}, TRUE)
    /\ memOps' = memOps + 1
    /\ UNCHANGED <<stMemories, stNextId, now>>
    /\ UNCHANGED <<loopVars, regVars, timerVars, engineVars>>

\* FileMemoryStore.delete(id); fail is what goes wrong in it
DurableDelete(id, fail) ==
    /\ memOps < MaxMemOps
    /\ \E r \in {LtDeleteFailing(LongTerm, id, fail)} :
           /\ ltFiles' = r.lt.files
           /\ ltIndex' = r.lt.index
           /\ ltNextId' = r.lt.nextId
           /\ lastMem' = MemCall("delete", id, r.deleted, {}, TRUE)
    /\ memOps' = memOps + 1
    /\ UNCHANGED <<stMemories, stNextId, now>>
    /\ UNCHANGED <<loopVars, regVars, timerVars, engineVars>>

\* FileMemoryStore.clear(type); fs.unlink throws for the files of stuck
DurableClear(type, stuck) ==
    /\ memOps < MaxMemOps
    /\ \E r \in {LtClearUnlink(LongTerm, type, stuck)} :
           /\ ltFiles' = r.lt.files
           /\ ltIndex' = r.lt.index
           /\ ltNextId' = r.lt.nextId
           /\ lastMem' = MemCall("clear", type, r.count, stuck, TRUE)
    /\ memOps' = memOps + 1
    /\ UNCHANGED <<stMemories, stNextId, now>>
    /\ UNCHANGED <<loopVars, regVars, timerVars, engineVars>>

\* FileMemoryStore.prune(maxAge, minImportance); fs.unlink throws for the
\* files of stuck
DurablePrune(p, stuck) ==
    /\ memOps < MaxMemOps
    /\ \E r \in {LtPruneUnlink(LongTerm, p.maxAge, p.minImportance, now, stuck)} :
           /\ ltFiles' = r.lt.files
           /\ ltIndex' = r.lt.index
           /\ ltNextId' = r.lt.nextId
           /\ lastMem' = MemCall("prune", p, r.count, stuck, TRUE)
    /\ memOps' = memOps + 1
    /\ UNCHANGED <<stMemories, stNextId, now>>
    /\ UNCHANGED <<loopVars, regVars, timerVars, engineVars>>

\* a new FileMemoryStore is built on the storage directory and initialized by
\* its first operation; indexFile is the index file it finds
DurableRestart(indexFile) ==
    /\ \E lt \in {LtInitializeFrom(LongTerm, indexFile)} :
           /\ ltFiles' = lt.files
           /\ ltIndex' = lt.index
           /\ ltNextId' = lt.nextId
           /\ lastMem' = MemCall("initialize", indexFile, lt.nextId, {}, TRUE)
    /\ UNCHANGED <<stMemories, stNextId, now, memOps>>
    /\ UNCHANGED <<loopVars, regVars, timerVars, engineVars>>

\* retrieve(id) on both stores
TierRetrieve(id) ==
    /\ memOps < MaxMemOps
    /\ \E r \in {[st |-> StRetrieve(stMemories, id, now),
                  lt |-> LtRetrieve(LongTerm, id, now)]} :
           /\ stMemories' = r.st.memories
           /\ ltFiles' = r.lt.lt.files
           /\ ltIndex' = r.lt.lt.index
           /\ ltNextId' = r.lt.lt.nextId
           /\ lastMem' = MemCall("retrieve", id,
                                 [st |-> r.st.entry, lt |-> r.lt.entry], {}, TRUE)
    /\ memOps' = memOps + 1
    /\ UNCHANGED <<stNextId, now>>
    /\ UNCHANGED <<loopVars, regVars, timerVars, engineVars>>

\* query(q) on both stores
TierQuery(q) ==
    /\ memOps < MaxMemOps
    /\ \E r \in {[st |-> StQuery(stMemories, q, now), lt |-> LtQuery(LongTerm, q, now)]} :
           /\ stMemories' = StAfterQuery(stMemories, q, now)
           /\ ltFiles' = r.lt.lt.files
           /\ ltIndex' = r.lt.lt.index
           /\ ltNextId' = r.lt.lt.nextId
           /\ lastMem' = MemCall("query", q, [st |-> r.st, lt |-> r.lt.entries], {}, TRUE)
    /\ memOps' = memOps + 1
    /\ UNCHANGED <<stNextId, now>>
    /\ UNCHANGED <<loopVars, regVars, timerVars, engineVars>>

\* prune(maxAge, minImportance) on both stores
TierPrune(p) ==
    /\ memOps < MaxMemOps
    /\ \E r \in {[st |-> StPrune(stMemories, p.maxAge, p.minImportance, now),
                  lt |-> LtPrune(LongTerm, p.maxAge, p.minImportance, now)]} :
           /\ stMemories' = r.st.memories
           /\ ltFiles' = r.lt.lt.files
           /\ ltIndex' = r.lt.lt.index
           /\ ltNextId' = r.lt.lt.nextId
           /\ lastMem' = MemCall("prune", p, [st |-> r.st.count, lt |-> r.lt.count],
                                 {}, TRUE)
    /\ memOps' = memOps + 1
    /\ UNCHANGED <<stNextId, now>>
    /\ UNCHANGED <<loopVars, regVars, timerVars, engineVars>>

\* the interval timer fires: the callback of lines 57-59 runs autoPrune
AutoPruneTick(outcome) ==
    /\ pruneTimer # Undefined
    /\ now >= pruneTimer[1].due
    /\ \E r \in {AutoPrune(stMemories, mgrConfig, outcome, now)} :
           /\ stMemories' = r.memories
           /\ lastMem' = MemCall("autoPrune",
                                 [maxAge |-> Some(ShortTermMaxAge(mgrConfig)),
                                  minImportance |-> Some(Medium)],
                                 [count |-> r.count, thrown |-> r.thrown],
                                 {}, outcome = "ok")
    /\ pruneTimer' = Some([interval |-> pruneTimer[1].interval,
                           due |-> now + pruneTimer[1].interval])
    /\ autoPrunes' = autoPrunes + 1
    /\ UNCHANGED <<stNextId, ltIndex, ltFiles, ltNextId, now, memOps, mgrConfig,
                   callers>>
    /\ UNCHANGED <<loopVars, regVars, engineVars>>

\* a caller calls MemoryManager.stopAutoPrune()
ManagerStopAutoPrune ==
    /\ memOps < MaxMemOps
    /\ pruneTimer' = StopAutoPrune(pruneTimer)
    /\ lastMem' = MemCall("stopAutoPrune", <<>>, 0, {}, TRUE)
    /\ memOps' = memOps + 1
    /\ UNCHANGED <<stMemories, stNextId, ltIndex, ltFiles, ltNextId, now, mgrConfig,
                   autoPrunes, callers>>
    /\ UNCHANGED <<loopVars, regVars, engineVars>>

\* a caller awaits MemoryManager.cleanup(), lines 419-421
ManagerCleanup ==
    /\ memOps < MaxMemOps
    /\ pruneTimer' = StopAutoPrune(pruneTimer)
    /\ lastMem' = MemCall("cleanup", <<>>, 0, {}, TRUE)
    /\ memOps' = memOps + 1
    /\ UNCHANGED <<stMemories, stNextId, ltIndex, ltFiles, ltNextId, now, mgrConfig,
                   autoPrunes, callers>>
    /\ UNCHANGED <<loopVars, regVars, engineVars>>

\* time passes
Tick ==
    /\ now < MaxTime
    /\ now' = now + 1
    /\ UNCHANGED <<stMemories, stNextId, ltIndex, ltFiles, ltNextId, memOps, lastMem>>
    /\ UNCHANGED <<loopVars, regVars, timerVars, engineVars>>

\* the entries the consolidation inside store(c) would try to move: none
\* when the store fails or leaves the volatile store under the threshold
StoreBatch(c, fail) ==
    LET st == IF RoutesToLongTerm(c.type) THEN stMemories
              ELSE StStore(stMemories, stNextId, c.type, c.content,
                           c.importance, c.tags, now)
    IN  IF fail = "none" /\ Len(st) >= ConsolidationThreshold
        THEN ConsolidateBatch(st, now)
        ELSE <<>>

\* ---- store() and consolidate() calls that interleave at their awaits
\* the callers of the model
Callers == 1..MaxCallers

\* a caller with no call in progress
IdleCaller == [at |-> "idle", memories |-> <<>>, consolidated |-> 0]

\* no call in progress and no entry copied
NoCallers ==
    [calls |-> [p \in Callers |-> IdleCaller], copies |-> <<>>, overlapped |-> FALSE]

\* the callers other than p that have a call in progress
OthersActive(p) == {q \in Callers \ {p} : callers.calls[q].at # "idle"}

\* caller p calls MemoryManager.store(...), lines 97-122: the chosen store's
\* store() has run when the call is next suspended, at maybeConsolidate
CallStore(p, c) ==
    /\ callers.calls[p].at = "idle"
    /\ memOps < MaxMemOps
    /\ IF RoutesToLongTerm(c.type)
       THEN \E r \in {LtStore(LongTerm, c.type, c.content, c.importance, c.tags,
                               now, "none")} :
                /\ ltFiles' = r.lt.files
                /\ ltIndex' = r.lt.index
                /\ ltNextId' = r.lt.nextId
                /\ UNCHANGED <<stMemories, stNextId>>
       ELSE /\ stMemories' = StStore(stMemories, stNextId, c.type, c.content,
                                     c.importance, c.tags, now)
            /\ stNextId' = stNextId + 1
            /\ UNCHANGED <<ltFiles, ltIndex, ltNextId>>
    /\ callers' = [callers EXCEPT !.calls[p].at = "stats",
                                  !.overlapped = @ \/ OthersActive(p) # {}]
    /\ lastMem' = MemCall("store", c, p, {}, TRUE)
    /\ memOps' = memOps + 1
    /\ UNCHANGED <<now, mgrConfig, pruneTimer, autoPrunes>>
    /\ UNCHANGED <<loopVars, regVars, engineVars>>

\* maybeConsolidate of caller p, lines 372-385: getStats has returned
CallMaybeConsolidate(p) ==
    /\ callers.calls[p].at = "stats"
    /\ callers' = [callers EXCEPT !.calls[p].at =
                       IF Len(stMemories) >= ConsolidationThreshold
                       THEN "query" ELSE "idle"]
    /\ UNCHANGED <<memVars, mgrConfig, pruneTimer, autoPrunes>>
    /\ UNCHANGED <<loopVars, regVars, engineVars>>

\* caller p calls MemoryManager.consolidate()
CallConsolidate(p) ==
    /\ callers.calls[p].at = "idle"
    /\ memOps < MaxMemOps
    /\ callers' = [callers EXCEPT !.calls[p].at = "query",
                                  !.overlapped = @ \/ OthersActive(p) # {}]
    /\ lastMem' = MemCall("consolidate", <<>>, p, {}, TRUE)
    /\ memOps' = memOps + 1
    /\ UNCHANGED <<stMemories, stNextId, ltIndex, ltFiles, ltNextId, now>>
    /\ UNCHANGED <<mgrConfig, pruneTimer, autoPrunes>>
    /\ UNCHANGED <<loopVars, regVars, engineVars>>

\* consolidate() of caller p, lines 330-342: shortTermStore.query has
\* returned the memories of the pass
CallQuery(p) ==
    /\ callers.calls[p].at = "query"
    /\ \E memories \in {StQuery(stMemories, ConsolidateQuery, now)} :
          callers' = [callers EXCEPT
                         !.calls[p] = IF memories = <<>> THEN IdleCaller
                                      ELSE [at |-> "loop", memories |-> memories,
                                            consolidated |-> 0]]
    /\ stMemories' = StAfterQuery(stMemories, ConsolidateQuery, now)
    /\ UNCHANGED <<stNextId, ltIndex, ltFiles, ltNextId, now, memOps, lastMem>>
    /\ UNCHANGED <<mgrConfig, pruneTimer, autoPrunes>>
    /\ UNCHANGED <<loopVars, regVars, engineVars>>

\* one pass of the loop of lines 344-358 of caller p: longTermStore.store has
\* returned ok, the original is deleted and counted
CallCopy(p) ==
    /\ callers.calls[p].at = "loop"
    /\ LET memory == Head(callers.calls[p].memories)
           rest == Tail(callers.calls[p].memories)
           r == LtStore(LongTerm, "long-term", memory.content, memory.importance,
                        memory.tags, now, "none")
       IN  /\ ltFiles' = r.lt.files
           /\ ltIndex' = r.lt.index
           /\ ltNextId' = r.lt.nextId
           /\ stMemories' = StDelete(stMemories, memory.id)
           /\ callers' = [callers EXCEPT
                  !.copies = Append(@, [of |-> memory.id, as |-> MemId(ltNextId)]),
                  !.calls[p] = IF rest = <<>> THEN IdleCaller
                               ELSE [at |-> "loop", memories |-> rest,
                                     consolidated |-> @.consolidated + 1]]
    /\ UNCHANGED <<stNextId, now, memOps, lastMem>>
    /\ UNCHANGED <<mgrConfig, pruneTimer, autoPrunes>>
    /\ UNCHANGED <<loopVars, regVars, engineVars>>

\* MemoryManager constructor, lines 40-51: the Manager built with config at
\* time t
MgrInit(config, t) ==
    /\ mgrConfig = config
    /\ pruneTimer = ManagerTimer(config, t)
    /\ autoPrunes = 0
    /\ callers = NoCallers

MemInit ==
    /\ MgrInit(NoTimerConfig, 0)
    /\ stMemories = <<>>
    /\ stNextId = 1
    /\ ltIndex = <<>>
    /\ ltFiles = EmptyMap
    /\ ltNextId = 1
    /\ now = 0
    /\ memOps = 0
    /\ lastMem = NoMemCall

MemNext ==
    \/ \E c \in StoreChoices :
         \E fail \in (IF RoutesToLongTerm(c.type) THEN LtFailModes ELSE {"none"}) :
           \E fails \in FailVectors(Len(StoreBatch(c, fail))) :
             ManagerStore(c, fail, fails)
    \/ \E fails \in FailVectors(Len(ConsolidateBatch(stMemories, now))) :
         ManagerConsolidate(fails)
    \/ Tick

(***************************************************************************)
(* WorkflowEngineImpl and WorkflowStateManager                             *)
(***************************************************************************)
\* the step types of the model: the engine registers an executor for agent
\* and conditional steps and none for loop steps
StepTypes == {"agent", "conditional", "loop"}

HasExecutor(type) == type \in {"agent", "conditional"}

\* the StepStatus an executor's result can carry
StepOutcomes(type) ==
    IF type = "agent" THEN {"completed", "failed"}
    ELSE {"completed", "skipped", "failed"}

\* the workflows of the model: their steps, by type
Workflows == UNION {[1..n -> StepTypes] : n \in 1..MaxSteps}

\* an engine that holds the workflow and has started no execution
NewEngine(steps) ==
    [steps |-> steps, status |-> None, currentStepIndex |-> 0,
     stepResults |-> EmptyMap, error |-> None,
     runs |-> <<>>, resuming |-> 0, events |-> <<>>, calls |-> 0]

\* WorkflowStateManager.create, lines 716-731
CreateState(w) ==
    [w EXCEPT !.status = "running", !.currentStepIndex = 0, !.stepResults = EmptyMap]

\* the catch clause of executeWorkflow, lines 574-581
EngineCatch(w, r, message) ==
    [w EXCEPT !.status = "failed", !.error = message, !.runs[r].phase = "done"]

\* lines 559-573: the loop is over; a running execution is completed
LoopExit(w, r) ==
    [w EXCEPT !.status = IF w.status = "running" THEN "completed" ELSE w.status,
              !.runs[r].phase = "done"]

\* lines 502-534: the loop of call r at step i (i counts from 1), up to the
\* await of executor.execute
LoopHead(w, r) ==
    LET i == w.runs[r].i
    IN  IF i > Len(w.steps) THEN LoopExit(w, r)
        ELSE IF w.status \in {"cancelled", "paused"} THEN LoopExit(w, r)
        ELSE IF ~HasExecutor(w.steps[i])
        THEN EngineCatch(w, r, "No executor for step type")
        ELSE [w EXCEPT !.runs[r].phase = "await",
                       !.events = Append(w.events, [kind |-> "begin", step |-> i,
                                                    status |-> None])]

\* lines 534-557: executor.execute of call r has settled with a result of the
\* given status; the result is stored and the loop goes on
AfterStep(w, r, outcome) ==
    LET i == w.runs[r].i
        stored == [w EXCEPT !.stepResults = MapSet(w.stepResults, i, outcome),
                            !.currentStepIndex = w.currentStepIndex + 1,
                            !.events = Append(w.events, [kind |-> "end", step |-> i,
                                                         status |-> outcome])]
    IN  IF outcome = "failed"
        THEN [stored EXCEPT !.status = "failed", !.error = "Step execution failed",
                            !.runs[r].phase = "done"]
        ELSE LoopHead([stored EXCEPT !.runs[r].i = i + 1], r)

\* executeWorkflow is called: a new loop, from the first step
Launch(w) ==
    LoopHead([w EXCEPT !.runs = Append(w.runs, [i |-> 1, phase |-> "check"])],
             Len(w.runs) + 1)

\* WorkflowEngineImpl.start, lines 455-485
EngineStart ==
    /\ wf.status = None
    /\ wf' = Launch(CreateState(wf))
    /\ UNCHANGED <<regVars, loopVars, memVars, timerVars>>

\* the step awaited by executeWorkflow call r settles
StepSettles(r, outcome) ==
    /\ wf.runs[r].phase = "await"
    /\ wf' = AfterStep(wf, r, outcome)
    /\ UNCHANGED <<regVars, loopVars, memVars, timerVars>>

\* WorkflowEngineImpl.pause, lines 615-618
EnginePause ==
    /\ wf.status # None
    /\ wf.calls < MaxCalls
    /\ wf' = [wf EXCEPT !.status = "paused", !.calls = wf.calls + 1]
    /\ UNCHANGED <<regVars, loopVars, memVars, timerVars>>

\* WorkflowEngineImpl.cancel, lines 650-653
EngineCancel ==
    /\ wf.status # None
    /\ wf.calls < MaxCalls
    /\ wf' = [wf EXCEPT !.status = "cancelled", !.calls = wf.calls + 1]
    /\ UNCHANGED <<regVars, loopVars, memVars, timerVars>>

\* WorkflowEngineImpl.resume, lines 623-640, up to the await of findById; on
\* an execution that is not paused it throws
EngineResume ==
    /\ wf.status # None
    /\ wf.calls < MaxCalls
    /\ wf' = IF wf.status = "paused"
             THEN [wf EXCEPT !.status = "running", !.resuming = wf.resuming + 1,
                             !.calls = wf.calls + 1]
             ELSE [wf EXCEPT !.calls = wf.calls + 1]
    /\ UNCHANGED <<regVars, loopVars, memVars, timerVars>>

\* lines 640-645: findById has returned and resume calls executeWorkflow
EngineResumeLaunch ==
    /\ wf.resuming > 0
    /\ wf' = Launch([wf EXCEPT !.resuming = wf.resuming - 1])
    /\ UNCHANGED <<regVars, loopVars, memVars, timerVars>>

\* no workflow
EngineIdle == wf = NewEngine(<<>>)

EngineInit == \E steps \in Workflows : wf = NewEngine(steps)

EngineNext ==
    \/ EngineStart
    \/ \E r \in {x \in 1..Len(wf.runs) : wf.runs[x].phase = "await"} :
         \E outcome \in StepOutcomes(wf.steps[wf.runs[r].i]) : StepSettles(r, outcome)
    \/ EnginePause
    \/ EngineCancel
    \/ EngineResume
    \/ EngineResumeLaunch

(***************************************************************************)
(* The specifications                                                      *)
(***************************************************************************)
\* one execute() call against the built-in registry
Init ==
    /\ LoopInit
    /\ tools = BuiltinById
    /\ toolsByName = BuiltinByName
    /\ lastCall = NoCall
    /\ MemInit
    /\ EngineIdle

Next == LoopNext

Spec == Init /\ [][Next]_vars

\* every awaited call returns and execute() keeps running
LiveSpec == Spec /\ WF_vars(Next)

\* the tool registry
InitTools ==
    /\ RegistryInit
    /\ LoopInit /\ request = [agentFound |-> TRUE, maxIterations |-> 0,
                              tools |-> [given |-> FALSE, names |-> <<>>],
                              hasMemory |-> FALSE, timeout |-> 1]
    /\ MemInit
    /\ EngineIdle

NextTools == RegistryNext

SpecTools == InitTools /\ [][NextTools]_vars

\* the memory manager
InitMem ==
    /\ MemInit
    /\ EngineIdle
    /\ RegistryInit
    /\ LoopInit /\ request = [agentFound |-> TRUE, maxIterations |-> 0,
                              tools |-> [given |-> FALSE, names |-> <<>>],
                              hasMemory |-> TRUE, timeout |-> 1]

NextMem == MemNext

SpecMem == InitMem /\ [][NextMem]_vars

\* the memory manager with every durable write succeeding
NoFails(n) == [i \in 1..n |-> "none"]

NextMgr ==
    \/ \E c \in StoreChoices :
         ManagerStore(c, "none", NoFails(Len(stMemories) + 1))
    \/ ManagerConsolidate(NoFails(Len(stMemories)))
    \/ \E q \in QueryChoices : \E delay \in 0..1 : ManagerQuery(q, delay)
    \/ \E p \in PruneChoices : ManagerPrune(p)
    \/ \E id \in IdChoices : ManagerDelete(id)
    \/ \E type \in ClearChoices : ManagerClear(type)
    \/ Tick

SpecMgr == InitMem /\ [][NextMgr]_vars

\* the two tier stores, given the same calls
NextStores ==
    \/ \E c \in StoreChoices : TierStore(c)
    \/ \E id \in IdChoices : TierRetrieve(id)
    \/ \E q \in QueryChoices : TierQuery(q)
    \/ \E p \in PruneChoices : TierPrune(p)
    \/ Tick

SpecStores == InitMem /\ [][NextStores]_vars

\* a Manager built with one of the configurations, its operations and its
\* auto-prune timer
InitTimer ==
    /\ \E config \in TimerConfigs : MgrInit(config, 0)
    /\ stMemories = <<>>
    /\ stNextId = 1
    /\ ltIndex = <<>>
    /\ ltFiles = EmptyMap
    /\ ltNextId = 1
    /\ now = 0
    /\ memOps = 0
    /\ lastMem = NoMemCall
    /\ EngineIdle
    /\ RegistryInit
    /\ LoopInit /\ request = [agentFound |-> TRUE, maxIterations |-> 0,
                              tools |-> [given |-> FALSE, names |-> <<>>],
                              hasMemory |-> TRUE, timeout |-> 1]

NextTimer ==
    \/ \E c \in {x \in StoreChoices : x.type \in {"short-term", "long-term"}} :
         ManagerStore(c, "none", NoFails(Len(stMemories) + 1))
    \/ ManagerConsolidate(NoFails(Len(stMemories)))
    \/ ManagerQuery(NoQuery, 0)
    \/ ManagerPrune([maxAge |-> Undefined, minImportance |-> Some(High)])
    \/ ManagerDelete(MemId(1))
    \/ ManagerClear("short-term")
    \/ Tick
    \/ \E outcome \in PruneOutcomes : AutoPruneTick(outcome)
    \/ ManagerStopAutoPrune
    \/ ManagerCleanup

SpecTimer == InitTimer /\ [][NextTimer]_vars

\* the two tier stores: entries stored and deleted, the durable store built
\* anew
NextIds ==
    \/ \E c \in StoreChoices : TierStore(c)
    \/ \E id \in IdChoices : TierDelete(id)
    \/ TierRestart

SpecIds == InitMem /\ [][NextIds]_vars

\* a Manager whose callers store, retrieve and delete entries by id
NextIdent ==
    \/ \E c \in StoreChoices :
         ManagerStore(c, "none", NoFails(Len(stMemories) + 1))
    \/ \E id \in IdChoices : ManagerRetrieve(id)
    \/ \E id \in IdChoices : ManagerDelete(id)

SpecIdent == InitMem /\ [][NextIdent]_vars

\* the entries the concurrent callers store
RaceChoices == {c \in StoreChoices : c.type \in {"short-term", "long-term"}}

\* several callers of one Manager, their calls interleaved at the awaits
NextRace ==
    \/ \E p \in Callers, c \in RaceChoices : CallStore(p, c)
    \/ \E p \in Callers : CallMaybeConsolidate(p)
    \/ \E p \in Callers : CallConsolidate(p)
    \/ \E p \in Callers : CallQuery(p)
    \/ \E p \in Callers : CallCopy(p)

SpecRace == InitMem /\ [][NextRace]_vars

\* the unlink failures of the model: none, or the file of one entry
StuckChoices == {{}} \cup {{id} : id \in IdChoices}

\* the durable store on a file system that can fail
NextDurable ==
    \/ \E c \in StoreChoices, fail \in LtFailModes : DurableStore(c, fail)
    \/ \E id \in IdChoices : DurableRetrieve(id)
    \/ \E q \in QueryChoices : DurableQuery(q)
    \/ \E id \in IdChoices, fail \in LtFailModes : DurableDelete(id, fail)
    \/ \E type \in ClearChoices, stuck \in StuckChoices : DurableClear(type, stuck)
    \/ \E p \in PruneChoices, stuck \in StuckChoices : DurablePrune(p, stuck)
    \/ Tick

SpecDurable == InitMem /\ [][NextDurable]_vars

\* the durable store across restarts of the process
NextStartup ==
    \/ \E c \in StoreChoices : DurableStore(c, "none")
    \/ \E id \in IdChoices : DurableDelete(id, "none")
    \/ \E indexFile \in IndexFiles : DurableRestart(indexFile)

SpecStartup == InitMem /\ [][NextStartup]_vars

\* one execution of a workflow by the engine
InitFlow ==
    /\ EngineInit
    /\ RegistryInit
    /\ MemInit
    /\ LoopInit /\ request = [agentFound |-> TRUE, maxIterations |-> 0,
                              tools |-> [given |-> FALSE, names |-> <<>>],
                              hasMemory |-> FALSE, timeout |-> 1]

NextFlow == EngineNext

SpecFlow == InitFlow /\ [][NextFlow]_vars

\* the calls of the public methods of a Task
NextTask ==
    \/ \E status \in TaskStatuses : TaskUpdate(status)
    \/ \E res \in TaskResultChoices : TaskSet(res)
    \/ Tick

\* a task just constructed, at time 0
InitTask == InitTools

SpecTask == InitTask /\ [][NextTask]_vars

(***************************************************************************)
(* Properties of the agent execution loop (Spec, LiveSpec)                 *)
(***************************************************************************)
ToolPasses == {k \in 1..Len(kinds) : kinds[k].kind = "tool"}

\* the Iteration Records held by the value execute() returned
ReturnedIterations == IF result.kind = "ok" THEN result.value.iterations ELSE <<>>

C1_Bounded ==
    /\ modelCalls <= request.maxIterations
    /\ Len(iterations) <= request.maxIterations

\* C1: execute() makes at most maxIterations model calls and appends at most
\* maxIterations Iteration Records, and, every awaited call returning, it
\* returns.
C1_BoundedAndReturns == [](C1_Bounded) /\ <>(pc = "returned")

C1_Witness ==
    /\ pc = "returned"
    /\ request.maxIterations = 2
    /\ modelCalls = 2
    /\ Len(iterations) = 2

\* C2: a response without a tool call on iteration k is recorded as the
\* terminal final_answer record number k, no model call or tool execution
\* follows it, and execute() returns success with that response's text and
\* exactly k records.
C2_FinalAnswerEnds ==
    \A k \in 1..Len(kinds) :
        kinds[k].kind = "final" =>
            /\ k = Len(iterations)
            /\ iterations[k].action = "final_answer"
            /\ iterations[k].number = k
            /\ completed
            /\ modelCalls = k
            /\ toolExecs = k - 1
            /\ pc \in {"loop", "returned"}
            /\ pc = "returned" =>
                  /\ result.kind = "ok"
                  /\ result.value.success
                  /\ result.value.output = Some(iterations[k].thought)
                  /\ Len(result.value.iterations) = k
                  /\ taskStatus = "completed"

C2_Witness ==
    /\ pc = "returned"
    /\ Len(kinds) = 2
    /\ kinds[2].kind = "final"
    /\ result.value.output = Some("The answer is 4")

\* C3: when every model turn asks for a tool, execute() with maxIterations = N
\* returns success = false with the error "Maximum iterations reached", the
\* task Failed and exactly N Iteration Records, after exactly N model calls.
C3_BoundReached ==
    (/\ pc = "returned"
     /\ request.agentFound
     /\ thrown = None
     /\ \A k \in 1..Len(kinds) : kinds[k].kind = "tool")
    => /\ result.kind = "ok"
       /\ ~result.value.success
       /\ result.value.error = "Maximum iterations reached"
       /\ taskStatus = "failed"
       /\ ~taskResult.success
       /\ Len(result.value.iterations) = request.maxIterations
       /\ result.value.iterations = iterations
       /\ modelCalls = request.maxIterations
       /\ toolExecs = request.maxIterations

C3_Witness ==
    /\ pc = "returned"
    /\ request.maxIterations = 2
    /\ thrown = None
    /\ Len(kinds) = 2
    /\ \A k \in 1..Len(kinds) : kinds[k].kind = "tool"

\* C4: whenever execute() ends in failure, by the bound or by an exception,
\* the returned value holds every Iteration Record appended before.
C4_FailureKeepsIterations ==
    (pc = "returned" /\ (result.kind = "err" \/ ~result.value.success))
    => ReturnedIterations = iterations

\* C5: once an iteration has thrown, execute() has returned the thrown error:
\* the throwing iteration was not retried and no model call or tool execution
\* followed it.
C5_ThrowAborts ==
    thrown # None =>
        /\ pc = "returned"
        /\ result = Err(thrown)
        /\ modelCalls = Len(iterations) + 1
        /\ toolExecs = Len(iterations)
        /\ iterationCount = Len(iterations) + 1

C5_Witness ==
    /\ thrown = "rate limited"
    /\ iterationCount = 2
    /\ pc = "returned"

\* C6: a failed tool call is recorded with the observation "Error: <message>"
\* and does not end the execution: the loop ends only by a final answer, the
\* bound or a thrown error.
C6_ToolFailureGoesOn ==
    /\ \A k \in ToolPasses :
          ~kinds[k].result.success =>
              /\ iterations[k].observation = "Error: " \o kinds[k].result.error
              /\ iterations[k].action \notin DOMAIN toolsByName =>
                    iterations[k].observation =
                        "Error: Tool not found: " \o iterations[k].action
    /\ (pc = "returned" /\ request.agentFound /\ thrown = None /\ ~completed)
          => Len(iterations) = request.maxIterations

C6_Witness ==
    /\ Len(iterations) = 2
    /\ kinds[1].kind = "tool"
    /\ ~kinds[1].result.success
    /\ iterations[1].observation = "Error: Invalid expression"

\* C9 as stated: one episodic write per tool-call iteration, none for the
\* final answer, so as many writes as non-final Iteration Records.
C9_OneWritePerToolPass == Len(memLog) = Cardinality(ToolPasses)

\* C9 amended: with a memory store wired in, the k-th tool-call iteration
\* made the k-th write, episodic, tagged [tool, name, executionId], Medium on
\* success and Low on failure; without a memory store nothing is written.
C9_OneWritePerToolPassWithStore ==
    IF request.hasMemory
    THEN /\ Len(memLog) = Cardinality(ToolPasses)
         /\ \A k \in ToolPasses :
               /\ memLog[k].type = "episodic"
               /\ memLog[k].tags = <<"tool", iterations[k].action, ExecutionIdString>>
               /\ memLog[k].importance =
                     (IF kinds[k].result.success THEN Medium ELSE Low)
    ELSE Len(memLog) = 0

C9_Witness ==
    /\ request.hasMemory
    /\ pc = "returned"
    /\ Len(kinds) = 2
    /\ kinds[1].kind = "tool"
    /\ ~kinds[1].result.success
    /\ kinds[2].kind = "final"
    /\ Len(memLog) = 1

(***************************************************************************)
(* Properties of the tool registry (SpecTools)                             *)
(***************************************************************************)
\* C7: ToolRegistry.execute never throws; a throwing executor gives a result
\* with success = false and the thrown message.
C7_ExecuteNeverThrows ==
    lastCall.name # None =>
        /\ lastCall.completion.k = "return"
        /\ (lastCall.invoked /\ lastCall.outcome.kind = "throw") =>
              /\ ~lastCall.completion.v.success
              /\ lastCall.completion.v.error = lastCall.outcome.error

C7_Witness ==
    /\ lastCall.invoked
    /\ lastCall.outcome.kind = "throw"

\* the params pass validation as the contract words it: every required field
\* is supplied and every supplied key is a property of the schema
ParamsValid(tool, params) ==
    /\ Range(tool.required) \subseteq Range(params)
    /\ Range(params) \subseteq tool.properties

\* C8: the executor is invoked only for a registered name with params that
\* pass validation; otherwise execute returns success = false.
C8_ExecutorOnlyWhenValid ==
    lastCall.name # None =>
        LET registered == lastCall.name \in DOMAIN lastCall.byName
            valid == registered /\ ParamsValid(lastCall.byName[lastCall.name],
                                               lastCall.params)
        IN  /\ lastCall.invoked => valid
            /\ ~valid => ~lastCall.completion.v.success

(***************************************************************************)
(* Properties of the memory manager (SpecMem)                              *)
(***************************************************************************)
InVolatile(id) == \E e \in Range(stMemories) : e.id = id

\* the durable store holds an entry with e's content, importance and tags
HasDurableCopy(e) ==
    \E i \in DOMAIN ltFiles :
        /\ JSONParse(ltFiles[i].content) = e.content
        /\ ltFiles[i].importance = e.importance
        /\ ltFiles[i].tags = e.tags
        /\ \E j \in 1..Len(ltIndex) : ltIndex[j].id = i

\* C10: after consolidate(), every entry that was in the volatile store with
\* importance >= the threshold is in the durable store and gone from the
\* volatile store, unless its durable write failed, when it is still in the
\* volatile store.
C10_ConsolidateMovesImportant ==
    lastMem.op = "consolidate" =>
        \A e \in Range(lastMem.pre) :
            e.importance >= ConsolidationImportance =>
                IF e.id \in lastMem.failed
                THEN InVolatile(e.id)
                ELSE HasDurableCopy(e) /\ ~InVolatile(e.id)

\* the entries of a volatile store a consolidation pass selects
Important(st) ==
    {e \in Range(st) : e.type = "short-term" /\ e.importance >= ConsolidationImportance}

\* the last call was a store() that wrote into the volatile tier and left it
\* with at least consolidationThreshold entries
StoreReachedThreshold ==
    /\ lastMem.op = "store"
    /\ ~RoutesToLongTerm(lastMem.args.type)
    /\ Len(lastMem.pre) + 1 >= ConsolidationThreshold

\* the short-term entries of importance >= the floor that store() found or added
StoreBatchSize ==
    Cardinality(Important(lastMem.pre))
    + (IF lastMem.args.type = "short-term"
          /\ lastMem.args.importance >= ConsolidationImportance THEN 1 ELSE 0)

\* C11: when store() has written into the volatile tier and the volatile count
\* has reached the threshold, the consolidation pass is over when store()
\* returns: no selected entry is left in the volatile store but one whose
\* durable write failed, and with N High short-term entries and no failure
\* the stats show 0 short-term and N more long-term entries.
C11_StoreConsolidatesAtThreshold ==
    StoreReachedThreshold =>
        /\ \A e \in Important(stMemories) : e.id \in lastMem.failed
        /\ lastMem.returned = StoreBatchSize - Cardinality(lastMem.failed)
        /\ lastMem.failed = {} =>
              /\ MgrStatsByType(stMemories, LongTerm, "short-term")
                    = MgrStatsByType(lastMem.pre, lastMem.preLt, "short-term")
                      + (IF lastMem.args.type = "short-term" THEN 1 ELSE 0)
                      - StoreBatchSize
              /\ MgrStatsByType(stMemories, LongTerm, "long-term")
                    = MgrStatsByType(<<>>, lastMem.preLt, "long-term") + StoreBatchSize

C11_Witness ==
    /\ StoreReachedThreshold
    /\ Len(lastMem.pre) = ConsolidationThreshold - 1
    /\ StoreBatchSize = ConsolidationThreshold
    /\ lastMem.failed = {}
    /\ MgrStatsByType(stMemories, LongTerm, "short-term") = 0
    /\ MgrStatsByType(stMemories, LongTerm, "long-term") = ConsolidationThreshold

\* C12: an entry whose durable write failed during consolidate() is still in
\* the volatile store and is not counted; the other entries of the batch are
\* moved, and consolidate() returns the number moved.
C12_FailedWriteIsSkipped ==
    lastMem.op = "consolidate" =>
        LET batch == Important(lastMem.pre)
        IN  /\ lastMem.failed \subseteq {e.id : e \in batch}
            /\ \A e \in batch :
                  IF e.id \in lastMem.failed
                  THEN InVolatile(e.id)
                  ELSE ~InVolatile(e.id) /\ HasDurableCopy(e)
            /\ lastMem.returned = Cardinality(batch) - Cardinality(lastMem.failed)
            /\ lastMem.returned
                  = Cardinality(Range(lastMem.pre)) - Cardinality(Range(stMemories))

C12_Witness ==
    /\ lastMem.op = "consolidate"
    /\ Cardinality(lastMem.failed) = 1
    /\ lastMem.returned = 1

LtEntries(lt) == [i \in 1..Len(lt.index) |-> EntryFromText(lt.files[lt.index[i].id])]

EntryOf(entries, id) == CHOOSE e \in Range(entries) : e.id = id

Ids(entries) == {e.id : e \in Range(entries)}

\* b is a with nothing but the access metadata changed
OnlyAccessDiffers(a, b) ==
    /\ a.id = b.id /\ a.type = b.type /\ a.content = b.content
    /\ a.importance = b.importance /\ a.tags = b.tags /\ a.createdAt = b.createdAt

\* retrieve(id) on a store holding pre returned the entry store(c) had made
RoundTrip(pre, made, id, returned) ==
    (id \in DOMAIN made /\ id \in Ids(pre)) =>
        /\ returned # Undefined
        /\ returned[1].content = made[id].content
        /\ returned[1].type = made[id].type
        /\ OnlyAccessDiffers(EntryOf(pre, id), returned[1])

\* C14: in both tier stores, retrieve(id) of an entry made by
\* store(type, content, ...) and still in the store returns that content and
\* type; only the access metadata differs from the stored entry.
C14_RoundTrip ==
    lastMem.op = "retrieve" =>
        /\ RoundTrip(lastMem.pre, lastMem.stored.st, lastMem.args, lastMem.returned.st)
        /\ RoundTrip(LtEntries(lastMem.preLt), lastMem.stored.lt, lastMem.args,
                     lastMem.returned.lt)

C14_Witness ==
    /\ lastMem.op = "retrieve"
    /\ lastMem.returned.st # Undefined
    /\ lastMem.returned.lt # Undefined
    /\ lastMem.returned.lt[1].content = Str(<<"A", "b">>)
    /\ lastMem.returned.lt[1].accessCount = 2

\* the ids of the entries the last retrieve or query returned from a store
HitIds(returned) ==
    IF lastMem.op = "retrieve"
    THEN (IF returned = Undefined THEN {} ELSE {returned[1].id})
    ELSE Ids(returned)

\* the access metadata of a store that held pre before the last call, holds
\* post after it, and returned the entries of hits
AccessCounted(pre, post, hits) ==
    \A e \in Range(post) :
        /\ e.accessedAt >= e.createdAt
        /\ e.id \in Ids(pre) =>
              /\ e.accessCount = EntryOf(pre, e.id).accessCount
                                 + (IF e.id \in hits THEN 1 ELSE 0)
              /\ e.accessedAt >= EntryOf(pre, e.id).accessedAt
        /\ e.id \notin Ids(pre) => e.accessCount = 0

\* C15: an entry's accessCount is 0 at creation and grows by one with every
\* retrieve or query that returns it, and by nothing else; accessedAt never
\* decreases and is never before createdAt.
C15_AccessMetadata ==
    /\ lastMem.op \in {"retrieve", "query"} =>
          /\ AccessCounted(lastMem.pre, stMemories, HitIds(lastMem.returned.st))
          /\ AccessCounted(LtEntries(lastMem.preLt), LtEntries(LongTerm),
                           HitIds(lastMem.returned.lt))
    /\ lastMem.op \in {"store", "prune"} =>
          /\ AccessCounted(lastMem.pre, stMemories, {})
          /\ AccessCounted(LtEntries(lastMem.preLt), LtEntries(LongTerm), {})

\* C15 for the volatile store alone
C15_VolatileAccessMetadata ==
    /\ lastMem.op \in {"retrieve", "query"} =>
          AccessCounted(lastMem.pre, stMemories, HitIds(lastMem.returned.st))
    /\ lastMem.op \in {"store", "prune"} => AccessCounted(lastMem.pre, stMemories, {})

\* the removal rule as the contract words it, for the call prune(p) at time t
ContractPrunes(e, p, t) ==
    LET floor == IF p.minImportance = Undefined THEN Low ELSE p.minImportance[1]
    IN  \/ p.maxAge # Undefined /\ t - e.createdAt > p.maxAge[1] /\ e.importance < floor
        \/ p.maxAge = Undefined /\ e.importance < floor

PrunedExactly(pre, post, count, p, t) ==
    /\ Ids(post) = {e.id : e \in {x \in Range(pre) : ~ContractPrunes(x, p, t)}}
    /\ count = Len(pre) - Len(post)
    /\ \A e \in Range(post) : e = EntryOf(pre, e.id)

\* C16: prune(maxAge, minImportance) removes exactly the entries the rule
\* names, keeps the others unchanged and returns the number removed.
C16_PruneRemovesExactly ==
    lastMem.op = "prune" =>
        /\ PrunedExactly(lastMem.pre, stMemories, lastMem.returned.st,
                         lastMem.args, lastMem.at)
        /\ PrunedExactly(LtEntries(lastMem.preLt), LtEntries(LongTerm),
                         lastMem.returned.lt, lastMem.args, lastMem.at)

\* C16 for the calls whose maxAge is absent or not 0
C16_PruneRemovesExactlyUnlessZero ==
    (lastMem.op = "prune" /\ lastMem.args.maxAge # Some(0)) =>
        /\ PrunedExactly(lastMem.pre, stMemories, lastMem.returned.st,
                         lastMem.args, lastMem.at)
        /\ PrunedExactly(LtEntries(lastMem.preLt), LtEntries(LongTerm),
                         lastMem.returned.lt, lastMem.args, lastMem.at)

\* an entry passes every predicate the query supplies
Matches(e, q, t) == QueryMatches(e, q, t) /\ SearchMatches(e.content, q)

\* returned is the answer to query(q) at time t on a store holding pre: the
\* matching entries by accessedAt descending, cut to the limit after sorting
QueryAnswer(pre, returned, q, t) ==
    LET matching == {e \in Range(pre) : Matches(e, q, t)}
    IN  /\ Ids(returned) \subseteq {e.id : e \in matching}
        /\ Len(returned) = Cardinality(Ids(returned))
        /\ Len(returned) = IF q.limit > 0 /\ Cardinality(matching) > q.limit
                           THEN q.limit ELSE Cardinality(matching)
        /\ \A i, j \in 1..Len(returned) :
              i < j => EntryOf(pre, returned[i].id).accessedAt
                          >= EntryOf(pre, returned[j].id).accessedAt
        /\ \A e \in matching :
              e.id \notin Ids(returned) =>
                  \A r \in Range(returned) :
                      EntryOf(pre, r.id).accessedAt >= e.accessedAt

\* C18: query(filter) returns the entries that pass all the supplied
\* predicates, by accessedAt descending, cut to limit after the sort, and the
\* two stores give the same answer when they hold the same entries.
C18_QueryContract ==
    lastMem.op = "query" =>
        /\ QueryAnswer(lastMem.pre, lastMem.returned.st, lastMem.args, lastMem.at)
        /\ QueryAnswer(LtEntries(lastMem.preLt), lastMem.returned.lt, lastMem.args,
                       lastMem.at)
        /\ LtEntries(lastMem.preLt) = lastMem.pre =>
              [i \in 1..Len(lastMem.returned.st) |-> lastMem.returned.st[i].id]
                 = [i \in 1..Len(lastMem.returned.lt) |-> lastMem.returned.lt[i].id]

\* C18 for the volatile store alone
C18_VolatileQueryContract ==
    lastMem.op = "query" =>
        QueryAnswer(lastMem.pre, lastMem.returned.st, lastMem.args, lastMem.at)

(***************************************************************************)
(* Properties of the memory manager across both tiers (SpecMgr)            *)
(***************************************************************************)
\* the last call was a prune, made right after a prune with the same
\* arguments
PrunedAgain == lastMem.op = "prune" /\ lastMem.again

NothingPruned ==
    /\ lastMem.returned.st = 0
    /\ lastMem.returned.lt = 0
    /\ lastMem.returned.total = 0

\* C17 as stated: the second of two prune calls in a row with the same
\* arguments returns 0, from each tier store and from the Manager.
C17_PruneTwiceReturnsZero == PrunedAgain => NothingPruned

\* C17 amended: it returns 0 when maxAge is absent, or when the clock reads
\* the same at both calls.
C17_PruneTwiceReturnsZeroSameClock ==
    (PrunedAgain /\ (lastMem.args.maxAge = Undefined \/ lastMem.at = lastMem.prevAt))
        => NothingPruned

\* an aged entry went at the first call, nothing at the second
C17_Witness ==
    /\ PrunedAgain
    /\ lastMem.args.maxAge = Some(1)
    /\ lastMem.at = lastMem.prevAt
    /\ lastMem.prevReturned.total = 1
    /\ NothingPruned

\* the entries of both tiers before the last call
BothTiersBefore == Range(lastMem.pre) \cup Range(LtEntries(lastMem.preLt))

\* the entry a returned entry was before the last call
Before(r) == CHOOSE e \in BothTiersBefore : e.id = r.id /\ e.type = r.type

\* C19: MemoryManager.query(q) returns at most limit entries: the matching
\* entries of the two tiers taken together with the most recent accessedAt,
\* in accessedAt-descending order.
C19_QueryLimitAcrossTiers ==
    lastMem.op = "query" =>
        LET q == lastMem.args
            returned == lastMem.returned
            matching == {e \in BothTiersBefore : Matches(e, q, lastMem.at)}
        IN  /\ q.limit > 0 => Len(returned) <= q.limit
            /\ \A i \in 1..Len(returned) : Before(returned[i]) \in matching
            /\ \A i, j \in 1..Len(returned) :
                  i < j => returned[i].accessedAt >= returned[j].accessedAt
            /\ \A e \in matching :
                  (\A i \in 1..Len(returned) : Before(returned[i]) # e) =>
                      \A i \in 1..Len(returned) :
                          Before(returned[i]).accessedAt >= e.accessedAt

\* C19 without the choice of the most recent entries
C19_QueryLimitBound ==
    lastMem.op = "query" =>
        LET q == lastMem.args
            returned == lastMem.returned
        IN  /\ q.limit > 0 => Len(returned) <= q.limit
            /\ \A i, j \in 1..Len(returned) :
                  i < j => returned[i].accessedAt >= returned[j].accessedAt

(***************************************************************************)
(* The wall-clock bound of the agent loop (Spec)                           *)
(***************************************************************************)
\* an iteration has just begun: the loop condition held and the model call
\* is in flight
IterationBegun == pc = "llm"

\* C20: the loop starts no iteration once the time since execute() began
\* exceeds the timeout of the request.
C20_NoIterationPastTimeout ==
    IterationBegun => now - startedAt <= request.timeout

\* C20 for the iteration count alone
C20_NoIterationPastMaxIterations ==
    IterationBegun => iterationCount <= request.maxIterations

(***************************************************************************)
(* The status of a Task (SpecTask)                                         *)
(***************************************************************************)
TerminalStatuses == {"completed", "failed", "cancelled"}

\* the moves pending -> running -> {completed, failed, cancelled}
StatusMoves ==
    {<<"pending", "running">>, <<"running", "completed">>, <<"running", "failed">>,
     <<"running", "cancelled">>}

\* C21: a Task's status moves only along pending -> running -> {completed,
\* failed, cancelled}, and no call changes the status of a task that is
\* completed, failed or cancelled.
C21_StatusLifecycle ==
    [][/\ taskStatus \in TerminalStatuses => taskStatus' = taskStatus
       /\ taskStatus' # taskStatus => <<taskStatus, taskStatus'>> \in StatusMoves]_vars

\* C21 for the completion time alone: once set it is kept
C21_CompletedAtKept ==
    [][taskMeta.completedAt # Undefined => taskMeta'.completedAt = taskMeta.completedAt]_vars

(***************************************************************************)
(* The auto-prune timer of the memory manager (SpecTimer)                  *)
(***************************************************************************)
TimerStopped == pruneTimer = Undefined

\* C22: after cleanup() or stopAutoPrune() the timer is stopped, and once it is
\* stopped no operation starts it again and no auto-prune tick runs.
C22_StoppedForGood ==
    /\ [](lastMem.op \in {"cleanup", "stopAutoPrune"} => TimerStopped)
    /\ [][TimerStopped => (pruneTimer' = Undefined /\ autoPrunes' = autoPrunes)]_vars

\* a Manager built with a timer ticked once, was cleaned up, and stored an
\* entry later
C22_Witness ==
    /\ Truthy(mgrConfig.pruneInterval)
    /\ TimerStopped
    /\ autoPrunes = 1
    /\ lastMem.op = "store"
    /\ lastMem.at = MaxTime

\* the last call was an auto-prune tick
Ticked == lastMem.op = "autoPrune"

\* the entries the tick took out of the volatile store
TickRemoved == Range(lastMem.pre) \ Range(stMemories)

\* the tick kept the order of the volatile store and added nothing
TickOnlyRemoved == stMemories = SeqFilter(lastMem.pre, Range(stMemories))

\* C23: an auto-prune tick changes only the volatile store, removes only
\* entries older than the configured max age with importance below Medium,
\* lets no error escape and leaves the timer running, also when its prune
\* fails.
C23_TickPrunesVolatileOnly ==
    Ticked =>
        /\ LongTerm = lastMem.preLt
        /\ TickOnlyRemoved
        /\ \A e \in TickRemoved :
              /\ lastMem.at - e.createdAt > ShortTermMaxAge(mgrConfig)
              /\ e.importance < Medium
        /\ lastMem.returned.thrown = None
        /\ ~TimerStopped

\* C23 for a Manager whose shortTermMaxAge is not 0
C23_TickPrunesVolatileOnlyUnlessZero ==
    (Ticked /\ mgrConfig.shortTermMaxAge # Some(0)) =>
        /\ LongTerm = lastMem.preLt
        /\ TickOnlyRemoved
        /\ \A e \in TickRemoved :
              /\ lastMem.at - e.createdAt > ShortTermMaxAge(mgrConfig)
              /\ e.importance < Medium
        /\ lastMem.returned.thrown = None
        /\ ~TimerStopped

(***************************************************************************)
(* The order of the steps of a workflow execution (SpecFlow)               *)
(***************************************************************************)
\* the steps begun so far, in the order they were begun
Begun == SeqFilter(wf.events, {e \in Range(wf.events) : e.kind = "begin"})

\* the steps were begun in list order, each once
InListOrder == \A k \in 1..Len(Begun) : Begun[k].step = k

\* the calls of an executor that have not settled
InFlight == {r \in 1..Len(wf.runs) : wf.runs[r].phase = "await"}

OneAtATime == Cardinality(InFlight) <= 1

StepFailed == \E e \in Range(wf.events) : e.kind = "end" /\ e.status = "failed"

NoStepAfterFailure ==
    \A p, q \in 1..Len(wf.events) :
        (p < q /\ wf.events[p].kind = "end" /\ wf.events[p].status = "failed")
            => wf.events[q].kind # "begin"

\* every executeWorkflow call has returned
Settled ==
    /\ wf.status # None
    /\ wf.resuming = 0
    /\ \A r \in 1..Len(wf.runs) : wf.runs[r].phase = "done"

\* every step of the workflow has finished and none has failed
AllStepsDone ==
    /\ ~StepFailed
    /\ \A i \in 1..Len(wf.steps) :
          \E e \in Range(wf.events) : e.kind = "end" /\ e.step = i

\* the execution is neither cancelled nor paused
NotStopped == wf.status \notin {"cancelled", "paused"}

\* C24: the steps of a workflow are executed in list order, one at a time; a
\* failed step makes the execution failed and no later step is executed; when
\* every step has finished without failure the execution is completed.
C24_StepsInOrder ==
    /\ InListOrder
    /\ OneAtATime
    /\ NoStepAfterFailure
    /\ (Settled /\ NotStopped /\ StepFailed) => wf.status = "failed"
    /\ (Settled /\ NotStopped /\ AllStepsDone) => wf.status = "completed"

\* C24 for the executions that nobody paused, resumed or cancelled
C24_StepsInOrderUndisturbed ==
    wf.calls = 0 =>
        /\ InListOrder
        /\ OneAtATime
        /\ NoStepAfterFailure
        /\ (Settled /\ StepFailed) => wf.status = "failed"
        /\ (Settled /\ AllStepsDone) => wf.status = "completed"

(***************************************************************************)
(* The order of the Iteration Records (Spec)                               *)
(***************************************************************************)
\* the tool-call records among the Iteration Records
ToolRecords == SeqFilter(kinds, {k \in Range(kinds) : k.kind = "tool"})

\* C25: the Iteration Records are numbered 1, 2, ..., n in the order they were
\* appended, the returned sequence is that sequence, a record is never changed
\* once appended, and a model call starts only when every earlier iteration
\* has its record and its memory write has settled.
C25_RecordsInOrder ==
    /\ [](\A k \in 1..Len(iterations) : iterations[k].number = k)
    /\ [](result.kind = "ok" => result.value.iterations = iterations)
    /\ [][/\ Len(iterations') >= Len(iterations)
          /\ SubSeq(iterations', 1, Len(iterations)) = iterations]_vars
    /\ [][modelCalls' > modelCalls =>
             /\ pc = "loop"
             /\ Len(iterations) = iterationCount
             /\ Len(memLog) = IF request.hasMemory THEN Len(ToolRecords) ELSE 0]_vars

\* an execution with a memory store returned a tool-call record followed by
\* the final answer
C25_Witness ==
    /\ result.kind = "ok"
    /\ request.hasMemory
    /\ Len(result.value.iterations) = 2
    /\ result.value.iterations[1].action = "calculator"
    /\ result.value.iterations[2].action = "final_answer"
    /\ Len(memLog) = 1

(***************************************************************************)
(* One tool per iteration (Spec)                                           *)
(***************************************************************************)
\* the tool call of the current pass has been executed and recorded
ToolPassRecorded ==
    /\ pc \in {"mem", "loop", "returned"}
    /\ pending.toolCalls # <<>>
    /\ Len(kinds) > 0
    /\ kinds[Len(kinds)].kind = "tool"

\* C26: at most one tool is executed per iteration: of the tool calls of a
\* response only the first is executed and recorded, and the others cause no
\* tool execution, no Iteration Record and no memory write.
C26_FirstToolCallOnly ==
    /\ toolExecs <= modelCalls
    /\ Len(iterations) <= modelCalls
    /\ Len(ToolRecords) <= toolExecs
    /\ Len(memLog) <= Len(ToolRecords)
    /\ pc = "tool" =>
          /\ pending.name = pending.toolCalls[1].name
          /\ pending.arguments = pending.toolCalls[1].arguments
    /\ ToolPassRecorded =>
          /\ iterations[Len(iterations)].action = pending.toolCalls[1].name
          /\ iterations[Len(iterations)].actionInput = pending.toolCalls[1].arguments

\* a response carried two tool calls; the first was executed, recorded and
\* written to memory, and nothing was done for the second
C26_Witness ==
    /\ pc = "loop"
    /\ request.hasMemory
    /\ Len(pending.toolCalls) = 2
    /\ pending.toolCalls[1].name = "calculator"
    /\ pending.toolCalls[2].name = "current_time"
    /\ modelCalls = 1
    /\ toolExecs = 1
    /\ Len(iterations) = 1
    /\ iterations[1].action = "calculator"
    /\ Len(memLog) = 1

(***************************************************************************)
(* The tool subset of an execution (Spec)                                  *)
(***************************************************************************)
\* the names of the tools in scope for the execution
InScope == ToolDefinitions(request, tools, toolsByName)

\* the tool calls whose executor ran to a successful result were in scope
ExecutedInScope ==
    \A k \in 1..Len(iterations) :
        (kinds[k].kind = "tool" /\ kinds[k].result.success)
            => iterations[k].action \in InScope

\* C27: when the request lists tool names, the tools in scope are the
\* resolvable names of the list and only those are executed.
C27_OnlyScopedToolsRun ==
    /\ request.tools.given =>
          InScope = Range(request.tools.names) \cap DOMAIN toolsByName
    /\ ExecutedInScope

\* C27 for the requests that list no tool names: every registered tool is in
\* scope
C27_AllToolsInScopeByDefault ==
    ~request.tools.given =>
        /\ InScope = DOMAIN toolsByName
        /\ ExecutedInScope

(***************************************************************************)
(* The reserved action name (Spec)                                         *)
(***************************************************************************)
\* the replay of the records holds the tool result of record k
ReplayHasResult(k) ==
    \E m \in Range(Replay(iterations)) :
        m.role = "user" /\ m.content = "Tool result: " \o iterations[k].observation

\* C28: a record has action "final_answer" exactly when its iteration made no
\* tool call, and the replay of a tool-call record includes its tool result.
C28_ReservedName ==
    \A k \in 1..Len(iterations) :
        /\ iterations[k].action = "final_answer" <=> kinds[k].kind = "final"
        /\ kinds[k].kind = "tool" => ReplayHasResult(k)

\* C28 from the final answer to the name: the record of an iteration without
\* a tool call has action "final_answer" and adds no tool result to the replay
C28_FinalAnswerIsNamed ==
    \A k \in 1..Len(iterations) :
        kinds[k].kind = "final" =>
            /\ iterations[k].action = "final_answer"
            /\ ReplayOne(iterations[k]) =
                  <<[role |-> "assistant", content |-> iterations[k].thought]>>

(***************************************************************************)
(* The ids of the tier stores (SpecIds)                                    *)
(***************************************************************************)
\* the step is a store() call
Stores == lastMem'.op = "store" /\ memOps' = memOps + 1

\* id is greater than every id of made, the entries stored before
Fresh(id, made) == \A old \in DOMAIN made : IdNumber(id) > IdNumber(old)

\* e was stamped by a store() call at time t
Stamped(e, t) == e.createdAt = t /\ e.accessedAt = t /\ e.accessCount = 0

\* C29: store() returns an id greater than every id the store returned
\* before, also after deletes and after the durable store is initialized again
\* from its index, and stamps createdAt = accessedAt and accessCount = 0.
C29_IdsGrow ==
    [][Stores =>
          /\ Fresh(lastMem'.returned.st, lastMem.stored.st)
          /\ Fresh(lastMem'.returned.lt, lastMem.stored.lt)
          /\ Stamped(stMemories'[Len(stMemories')], now)
          /\ Stamped(EntryFromText(ltFiles'[lastMem'.returned.lt]), now)]_vars

\* C29 for the volatile store, and for the stamps of the durable store
C29_VolatileIdsGrow ==
    [][Stores =>
          /\ Fresh(lastMem'.returned.st, lastMem.stored.st)
          /\ Stamped(stMemories'[Len(stMemories')], now)
          /\ Stamped(EntryFromText(ltFiles'[lastMem'.returned.lt]), now)]_vars

(***************************************************************************)
(* The entry count across a consolidation pass (SpecMem)                   *)
(***************************************************************************)
\* the entries of the volatile store before the call that are gone after it
Moved == {e \in Range(lastMem.pre) : ~InVolatile(e.id)}

\* the durable store holds, under an id it did not hold before the call, a
\* long-term entry with e's content, importance and tags
HasNewDurableCopy(e) ==
    \E i \in DOMAIN ltFiles \ DOMAIN lastMem.preLt.files :
        /\ JSONParse(ltFiles[i].content) = e.content
        /\ ltFiles[i].type = "long-term"
        /\ ltFiles[i].importance = e.importance
        /\ ltFiles[i].tags = e.tags
        /\ \E j \in 1..Len(ltIndex) : ltIndex[j].id = i

\* consolidate() returned the number of entries moved and every moved entry
\* has its long-term copy
MovedAreCopied ==
    /\ lastMem.returned = Cardinality(Moved)
    /\ \A e \in Moved : HasNewDurableCopy(e)

\* the entries of both tiers are as many as before the call
TotalUnchanged ==
    Len(stMemories) + Len(ltIndex) = Len(lastMem.pre) + Len(lastMem.preLt.index)

\* C30: a consolidate() pass leaves the total number of entries across both
\* tiers unchanged, returns the number of entries moved, and gives each moved
\* entry a long-term copy with the same content, importance and tags.
C30_ConsolidateKeepsTotal ==
    lastMem.op = "consolidate" => TotalUnchanged /\ MovedAreCopied

\* C30 with the total unchanged only when every durable write of the pass
\* returned ok
C30_ConsolidateKeepsTotalUnlessWriteFails ==
    lastMem.op = "consolidate" =>
        /\ lastMem.failed = {} => TotalUnchanged
        /\ MovedAreCopied

(***************************************************************************)
(* Resume, terminal statuses and the loops of an execution (SpecFlow)      *)
(***************************************************************************)
\* no step was begun after it had produced a result
NoStepRunAgain ==
    \A p, q \in 1..Len(wf.events) :
        (p < q /\ wf.events[p].kind = "end" /\ wf.events[q].kind = "begin")
            => wf.events[q].step # wf.events[p].step

\* C38: resuming a paused execution continues with the first step that has
\* not yet run: no step that already produced a result is executed again.
C38_ResumeContinues == NoStepRunAgain

\* C38 for the executions whose executeWorkflow was called once, by start()
C38_NoRerunWithoutResume == Len(wf.runs) <= 1 => NoStepRunAgain

WorkflowTerminal == {"completed", "failed", "cancelled"}

\* the step keeps a terminal status and begins no step
TerminalKept ==
    wf.status \in WorkflowTerminal =>
        /\ wf'.status = wf.status
        /\ Len(wf'.events) >= Len(wf.events)
        /\ \A k \in (Len(wf.events) + 1)..Len(wf'.events) :
              wf'.events[k].kind # "begin"

\* C39: once an execution is Completed, Failed or Cancelled, no pause,
\* resume, cancel or late step outcome changes its status, and no further
\* step starts.
C39_TerminalIsFinal == [][TerminalKept]_vars

\* C39 for the executions nobody paused, resumed or cancelled
C39_TerminalIsFinalUndisturbed == [][wf'.calls = 0 => TerminalKept]_vars

\* the executeWorkflow calls that have not returned
ActiveLoops == {r \in 1..Len(wf.runs) : wf.runs[r].phase # "done"}

\* C40: at most one executeWorkflow loop is active for an execution at any
\* time, also when pause() is followed by resume() while a step is in flight.
C40_OneLoopActive == Cardinality(ActiveLoops) <= 1

\* C40 until the first resume() of the execution has called executeWorkflow
C40_OneLoopBeforeResume == Len(wf.runs) <= 1 => Cardinality(ActiveLoops) <= 1

(***************************************************************************)
(* Tool names as registry keys (SpecTools)                                 *)
(***************************************************************************)
\* list() holds a tool named n
Lists(n) == \E i \in DOMAIN tools : tools[i].name = n

\* C37: after any sequence of register / unregister calls, list() contains
\* no two tools with the same name, and getByName(n) returns a tool exactly
\* when list() contains a tool named n.
C37_NamesAreKeys ==
    /\ \A a, b \in DOMAIN tools : tools[a].name = tools[b].name => a = b
    /\ \A n \in CallNames : n \in DOMAIN toolsByName <=> Lists(n)

\* the tool getByName(n) returns is named n and is one of the tools of list()
C37_ByNameIsListed ==
    \A n \in DOMAIN toolsByName :
        /\ toolsByName[n].name = n
        /\ toolsByName[n].id \in DOMAIN tools
        /\ tools[toolsByName[n].id] = toolsByName[n]

(***************************************************************************)
(* store() of a long-term or semantic entry (SpecMem)                      *)
(***************************************************************************)
\* the last call was a store() routed to the durable store
StoredDurable == lastMem.op = "store" /\ RoutesToLongTerm(lastMem.args.type)

\* C33: store() of a long-term or semantic entry changes only the durable
\* store: the volatile store holds the same entries before and after the
\* call, and the call consolidates nothing.
C33_DurableStoreLeavesVolatile ==
    StoredDurable =>
        /\ Ids(stMemories) = Ids(lastMem.pre)
        /\ lastMem.returned = 0

\* C33 for the calls made while the volatile store is below the
\* consolidation threshold
C33_DurableStoreBelowThreshold ==
    (StoredDurable /\ Len(lastMem.pre) < ConsolidationThreshold) =>
        /\ stMemories = lastMem.pre
        /\ lastMem.returned = 0

(***************************************************************************)
(* The access metadata of the entries a query does not return (SpecMgr)    *)
(***************************************************************************)
\* e, an entry of a store after the call, has the accessCount and accessedAt
\* it had in pre, the store before the call
AccessKept(e, pre) ==
    /\ e.accessCount = EntryOf(pre, e.id).accessCount
    /\ e.accessedAt = EntryOf(pre, e.id).accessedAt

\* C34: query() changes the access metadata only of the entries it returns:
\* an entry that is not in the returned list, because it failed a predicate
\* or was cut off by limit, keeps its accessCount and accessedAt.
C34_QueryCountsReturnedOnly ==
    lastMem.op = "query" =>
        /\ \A e \in Range(stMemories) :
              e \notin Range(lastMem.returned) => AccessKept(e, lastMem.pre)
        /\ \A e \in Range(LtEntries(LongTerm)) :
              e \notin Range(lastMem.returned)
                  => AccessKept(e, LtEntries(lastMem.preLt))

\* C34 for the entries that fail the type, importance, tags or age predicate
C34_FilteredOutKeepMetadata ==
    lastMem.op = "query" =>
        /\ \A e \in Range(stMemories) :
              ~QueryMatches(EntryOf(lastMem.pre, e.id), lastMem.args, lastMem.at)
                  => AccessKept(e, lastMem.pre)
        /\ \A e \in Range(LtEntries(LongTerm)) :
              ~QueryMatches(EntryOf(LtEntries(lastMem.preLt), e.id), lastMem.args,
                            lastMem.at)
                  => AccessKept(e, LtEntries(lastMem.preLt))

(***************************************************************************)
(* The index and the entry files of the durable store (SpecDurable)        *)
(***************************************************************************)
IndexIds == {m.id : m \in Range(ltIndex)}

\* the ids of the index are the ids that have an entry file
IndexMatchesFiles == IndexIds = DOMAIN ltFiles

\* C36: after any sequence of store / retrieve / query / delete / clear /
\* prune calls, also when a file write, a file delete or an index write
\* fails, the ids listed in the index are exactly the ids that have an entry
\* file.
C36_IndexMatchesFiles == IndexMatchesFiles

\* C36 for every call in which no fs.unlink of clear or prune fails
C36_IndexMatchesFilesUnlessUnlinkFails ==
    [][(IndexMatchesFiles /\ lastMem'.failed = {}) => IndexMatchesFiles']_vars

(***************************************************************************)
(* The durable store started on a missing or corrupt index (SpecStartup)   *)
(***************************************************************************)
\* the last step built the store anew on a missing or corrupt index file
StartedWithoutIndex ==
    lastMem.op = "initialize" /\ lastMem.args \in {"missing", "corrupt"}

\* stats report no entry, query returns nothing and store() succeeds
ActsEmpty ==
    /\ Len(ltIndex) = 0
    /\ LtQuery(LongTerm, NoQuery, now).entries = <<>>
    /\ \A c \in StoreChoices :
          LtStore(LongTerm, c.type, c.content, c.importance, c.tags, now, "none").ok

\* C35: a durable store started on a corrupt or missing index behaves as an
\* empty store: stats report zero entries, query returns nothing, retrieve of
\* any id returns no entry, and later store() calls succeed.
C35_StartsEmpty ==
    StartedWithoutIndex =>
        /\ ActsEmpty
        /\ \A id \in IdChoices : LtRetrieve(LongTerm, id, now).entry = Undefined

\* C35 without retrieve, and with retrieve when the directory holds no entry
\* file
C35_StartsEmptyButForFiles ==
    StartedWithoutIndex =>
        /\ ActsEmpty
        /\ DOMAIN ltFiles = {} =>
              \A id \in IdChoices : LtRetrieve(LongTerm, id, now).entry = Undefined

(***************************************************************************)
(* The ids of the Manager's entries (SpecIdent)                            *)
(***************************************************************************)
\* the entries of both tiers before the last call
EntriesBefore == Len(lastMem.pre) + Len(lastMem.preLt.index)

EntriesNow == Len(stMemories) + Len(ltIndex)

\* no id is the id of two entries of the Manager
OneEntryPerId ==
    /\ Ids(stMemories) \cap IndexIds = {}
    /\ Cardinality(Ids(stMemories)) = Len(stMemories)
    /\ Cardinality(IndexIds) = Len(ltIndex)

\* C32: an id returned by MemoryManager.store() identifies one entry across
\* both tiers: retrieve(id) returns the entry of that id and delete(id)
\* removes that entry and no other.
C32_IdIdentifiesOneEntry ==
    /\ OneEntryPerId
    /\ lastMem.op = "delete" => EntriesBefore - EntriesNow <= 1
    /\ (lastMem.op = "retrieve" /\ lastMem.returned # Undefined) =>
          lastMem.returned[1].id = lastMem.args

\* C32 within each tier: no two entries of one store share an id, and
\* retrieve(id) returns an entry of that id
C32_IdIdentifiesOneEntryPerTier ==
    /\ Cardinality(Ids(stMemories)) = Len(stMemories)
    /\ Cardinality(IndexIds) = Len(ltIndex)
    /\ (lastMem.op = "retrieve" /\ lastMem.returned # Undefined) =>
          lastMem.returned[1].id = lastMem.args

(***************************************************************************)
(* Interleaved consolidation passes (SpecRace)                             *)
(***************************************************************************)
\* no volatile entry has two long-term copies
PromotedOnce ==
    \A i, j \in 1..Len(callers.copies) :
        callers.copies[i].of = callers.copies[j].of => i = j

\* C31: each volatile entry is promoted to the durable tier at most once,
\* also when several store()/consolidate() calls on one Manager interleave
\* at their await points.
C31_PromotedAtMostOnce == PromotedOnce

\* C31 for the calls made one after the other, each begun when no other call
\* is in progress
C31_PromotedOnceInSequence == ~callers.overlapped => PromotedOnce

====
